---- MODULE Spec2Model ----
(***************************************************************************)
(* cc-buddy: environment orchestrator (internal/environment/manager.go),   *)
(* state store (internal/config) and the git / container-runtime adapters  *)
(* it drives.  Strings that the code takes apart or builds by formatting   *)
(* are sequences of tokens; all other strings are TLA+ strings.            *)
(***************************************************************************)
EXTENDS Integers, Sequences, FiniteSets, TLC

(* ------------------------------------------------------------------ *)
(* Bounds and inputs                                                    *)
(* ------------------------------------------------------------------ *)

\* number of orchestrator calls in one run of the program
MaxOps == 2

\* number of teardown or compensation calls that fail within one operation
MaxFailures == 1

\* name of the repository, as GetRepoName returns it
RepoName == <<"demo">>

\* branch names passed as CreateEnvironmentOptions.BranchName
Branches == { <<"x">>, <<"f", "/", "x">>, <<"f", "-", "x">> }

\* CreateEnvironmentOptions, restricted to the fields that steer control flow
Options ==
    [BranchName : Branches, IsRemoteBranch : {FALSE}]
        \cup [BranchName : {<<"x">>}, IsRemoteBranch : {TRUE}]

\* the local branches of the repository before the first operation
InitialBranches == { <<"x">> }

NoErr == "nil"
EmptyStr == << >>

(* ------------------------------------------------------------------ *)
(* Pure helpers                                                         *)
(* ------------------------------------------------------------------ *)

RECURSIVE ReplaceAll(_, _, _)
\* strings.ReplaceAll(s, old, new) for one-token old and new
ReplaceAll(s, old, new) ==
    IF s = << >> THEN << >>
    ELSE <<IF Head(s) = old THEN new ELSE Head(s)>> \o ReplaceAll(Tail(s), old, new)

\* "%s-%s" of the repository name and the branch with "/" turned into "-"
GenerateEnvironmentName(branchName) ==
    RepoName \o <<"-">> \o ReplaceAll(branchName, "/", "-")

EnvNames == { GenerateEnvironmentName(b) : b \in Branches }

\* filepath.Join(opts.WorktreeDir, envName) with the default WorktreeDir
WorktreePathOf(envName) == <<".worktrees", "/">> \o envName

ContainerNameOf(envName) == <<"cc-buddy-">> \o envName

VolumeNameOf(envName) == <<"cc-buddy-">> \o envName \o <<"-data">>

ImageTagOf(envName) == <<"cc-buddy-">> \o envName \o <<":latest">>

HasName(envs, name) == \E i \in 1..Len(envs) : envs[i].Name = name

\* index of the first record with that name, 0 if there is none
FirstIndex(envs, name) ==
    IF HasName(envs, name)
    THEN CHOOSE i \in 1..Len(envs) :
            /\ envs[i].Name = name
            /\ \A j \in 1..(i - 1) : envs[j].Name # name
    ELSE 0

\* the sequence without its i-th element
RemoveAt(envs, i) == SubSeq(envs, 1, i - 1) \o SubSeq(envs, i + 1, Len(envs))

\* config.Manager.GetEnvironment: found?
GetEnvironmentFound(envs, name) == HasName(envs, name)

\* config.Manager.GetEnvironment: the record (first match)
GetEnvironment(envs, name) == envs[FirstIndex(envs, name)]

(* ------------------------------------------------------------------ *)
(* State                                                                *)
(* ------------------------------------------------------------------ *)

VARIABLES
    state,          \* config.Manager.state.Environments (in memory)
    disk,           \* the persisted environments.json document
    branches,       \* local branches of the repository
    worktrees,      \* git worktrees: records [path, branch]
    images,         \* image tags known to the runtime
    volumes,        \* named volumes known to the runtime
    containers,     \* containers known to the runtime: records [id, name]
    op,             \* operation in progress or last returned
    pc,             \* position inside the operation
    opts,           \* CreateEnvironment: its options
    envName,        \* name the operation is about
    env,            \* CreateEnvironment: the record being built
    cleanup,        \* CreateEnvironment: cleanupState
    calls,          \* adapter/store calls issued by the operation body
    compCalls,      \* calls issued by CreateEnvironment's deferred cleanup
    warnings,       \* "Warning: ..." lines printed by the deferred cleanup
    cleanupErrors,  \* CleanupEnvironment: its cleanupErrors slice
    retErr,         \* error returned by the operation
    pre,            \* state when the operation was called
    preDisk,        \* disk when the operation was called
    nops,           \* number of operations called so far
    preBranches,    \* branches when the operation was called
    ctxDone,        \* the ctx passed to the operation has been cancelled
    operations,     \* OperationManager.operations: the keys of the map
    opObj,          \* the Operation objects ever allocated, by identifier
    idCounter,      \* OperationManager.idCounter
    omMu,           \* the goroutine that holds om.mu across steps, NoHolder if none
    cancelled,      \* Operations whose Cancel has been invoked
    forced,         \* Operations ForceCancel has taken out of the map
    cleanupLog,     \* runs of cleanup functions, in order
    issued,         \* identifiers StartOperation has returned, in order
    tpc,            \* position of each goroutine inside its tracker call
    tcall,          \* tracker call of each goroutine: method, arguments, locals
    tret,           \* what the last tracker call of each goroutine returned
    tcalls,         \* number of tracker calls made so far
    sigCh,          \* SignalHandler.shutdownCh: the signals buffered in it
    shutdown,       \* SignalHandler.shutdown
    shPc,           \* position of the handleSignals goroutine
    shLog,          \* what the signal handler did, in order
    nsigs,          \* number of signals sent to the process so far
    quitAtWait,     \* a SIGQUIT went into the channel while gracefulShutdown waited
    termAt,         \* the orchestrator when gracefulShutdown was entered
    exitAt,         \* the orchestrator when program.Quit was called
    spc,            \* position of each goroutine inside its call of the store
    scall,          \* store call of each goroutine: method, arguments, locals
    tasks,          \* CleanupManager.tasks
    held,           \* the resources the cleanup tasks are there to release
    cmRet,          \* what the last call of the CleanupManager did and returned
    ncm,            \* number of calls of the CleanupManager so far
    uiKind,         \* the program that runs: "main" (MainModel) or "list" (StandaloneListModel)
    currentView,    \* MainModel.currentView
    cursor,         \* name in the selected row of the table, "" if there is none
    showConfirm,    \* StandaloneListModel.showConfirm
    confirmModel,   \* StandaloneListModel.confirmModel, NoModel if nil
    selectedEnvName, \* StandaloneListModel.selectedEnvName
    inbox,          \* ConfirmationResult messages sent and not yet taken by Update
    deleteCalls,    \* names DeleteEnvironment was invoked with by the UI, in order
    dialogs,        \* the confirmation dialogs shown: name and selected button
    confirms,       \* names whose dialog the user confirmed, in order
    nkeys,          \* number of keys pressed so far
    hidden,         \* State of the Manager of the view that is not shown
    persistedHere,  \* names a successful create persisted, not passed to DeleteEnvironment since
    mu,             \* the sync.RWMutex values: om.mu at 0, op.mu of an Operation at its identifier
    lk,             \* each goroutine's call seen at its lock operations: method, position
    nlk             \* number of calls made so far, seen at their lock operations

vars == <<state, disk, branches, worktrees, images, volumes, containers,
          op, pc, opts, envName, env, cleanup, calls, compCalls, warnings,
          cleanupErrors, retErr, pre, preDisk, nops, preBranches, ctxDone,
          operations, opObj, idCounter, omMu, cancelled, forced, cleanupLog,
          issued,
          tpc, tcall, tret, tcalls, sigCh, shutdown, shPc, shLog, nsigs, quitAtWait,
          termAt, exitAt, spc, scall, tasks, held, cmRet, ncm,
          uiKind, currentView, cursor, showConfirm, confirmModel, selectedEnvName,
          inbox, deleteCalls, dialogs, confirms, nkeys, hidden, persistedHere,
          mu, lk, nlk>>

trackerVars == <<operations, opObj, idCounter, omMu, cancelled, forced, cleanupLog,
                 issued, tpc, tcall, tret, tcalls>>

signalVars == <<sigCh, shutdown, shPc, shLog, nsigs, quitAtWait, termAt, exitAt>>

\* the locks of the tracker and the calls that take them
lockVars == <<mu, lk, nlk>>

\* the models of the terminal UI
uiVars ==
    <<uiKind, currentView, cursor, showConfirm, confirmModel, selectedEnvName,
      inbox, deleteCalls, dialogs, confirms, nkeys, hidden>>

\* the orchestrator, the store, the world it acts on and the views over them
orchVars ==
    <<state, disk, branches, worktrees, images, volumes, containers, op, pc,
      opts, envName, env, cleanup, calls, compCalls, warnings, cleanupErrors,
      retErr, pre, preDisk, nops, preBranches, ctxDone, spc, scall, uiVars,
      persistedHere, lockVars>>

cmVars == <<tasks, held, cmRet, ncm>>

\* what the tracker never touches
nonTrackerVars == <<orchVars, signalVars, cmVars>>

\* what the orchestrator never touches
otherVars == <<trackerVars, signalVars, spc, scall, cmVars, uiVars, lockVars>>

\* what an operation gets when it is called and keeps until it returns
callVars == <<preBranches, ctxDone>>

storeVars == <<state, disk>>
worldVars == <<branches, worktrees, images, volumes, containers>>

NoCleanup ==
    [environmentInState |-> FALSE, branchCreated |-> FALSE,
     worktreeCreated |-> FALSE, imageBuilt |-> FALSE, volumeCreated |-> FALSE,
     containerStarted |-> FALSE, imageName |-> EmptyStr]

NoEnv ==
    [Name |-> EmptyStr, Branch |-> EmptyStr, WorktreePath |-> EmptyStr,
     ContainerID |-> 0, ContainerName |-> EmptyStr, VolumeName |-> EmptyStr,
     Status |-> ""]

NoOpts == [BranchName |-> EmptyStr, IsRemoteBranch |-> FALSE]

\* an entry of the call log
Call(name, res) == [call |-> name, res |-> res]

CallNames(log) == [i \in 1..Len(log) |-> log[i].call]

\* no call is in progress and the program issues another one
Idle == pc \in {"idle", "returned"} /\ nops < MaxOps

\* the elements of a sequence
Range(seq) == {seq[i] : i \in 1..Len(seq)}

\* the sets of calls, among those issued, that may fail in one operation
FailureSets(seq) == {F \in SUBSET Range(seq) : Cardinality(F) <= MaxFailures}

\* goroutine 0 is the signal handler's, the others are callers of the tracker
SignalGoroutine == 0
Callers == {1, 2}
Goroutines == {SignalGoroutine} \cup Callers

NoHolder == -1

\* the tracker as seen from outside: live set, objects, cleanup runs, cancellations
TrackerView ==
    [live |-> operations, objs |-> opObj, runs |-> Len(cleanupLog),
     cancelled |-> cancelled]

\* method and arguments of a call, then its locals: found is the "exists"
\* of the map lookup, snap the slice the cleanup loop ranges over, i its
\* index; attached is the cleanup list of the Operation when the call was
\* made; polls is the number of ticks of WaitForCompletion that did not end
\* it, deadline says whether the deadline of its ctx has passed ("pending" if
\* not) and whether the map was empty ("drained") or not ("live") when it did
NoCall ==
    [method |-> "none", id |-> 0, fn |-> "", progress |-> 0, status |-> "",
     attached |-> << >>, found |-> FALSE, snap |-> << >>, i |-> 0, polls |-> 0,
     deadline |-> "pending"]

\* lines 84-93: the Operation StartOperation allocates
NewOperation ==
    [Status |-> "starting", Progress |-> 0, Cleanup |-> << >>, Error |-> NoErr]

NoOperation == [Status |-> "", Progress |-> 0, Cleanup |-> << >>, Error |-> NoErr]

\* err, id, obj and ops are what the call returned (obj the Operation as it
\* was then); gone and new are the identifiers its last step took out of and
\* put into the map, live the keys of the map after it, same says that its
\* last step left the tracker as it was, cleaning the Operations whose
\* FailOperation was in its loop over the cleanup functions at that step
NoRet ==
    [err |-> NoErr, id |-> 0, obj |-> NoOperation, ops |-> {}, gone |-> {},
     new |-> {}, live |-> {}, same |-> TRUE, cleaning |-> {}]

\* NewOperationManager: an empty map, idCounter 0
TrackerInit ==
    /\ operations = {}
    /\ opObj = << >>
    /\ idCounter = 0
    /\ omMu = NoHolder
    /\ cancelled = {}
    /\ forced = {}
    /\ cleanupLog = << >>
    /\ issued = << >>
    /\ tpc = [g \in Goroutines |-> "idle"]
    /\ tcall = [g \in Goroutines |-> NoCall]
    /\ tret = [g \in Goroutines |-> NoRet]
    /\ tcalls = 0

\* where the orchestrator is: the call number, the operation, its position
\* and whether its ctx is cancelled
NoSnap == [nops |-> 0, op |-> "none", pc |-> "idle", ctxDone |-> FALSE]

\* NewSignalHandler and Start: an empty channel, shutdown false, the
\* goroutine at the range over the channel
SignalInit ==
    /\ sigCh = << >>
    /\ shutdown = FALSE
    /\ shPc = "recv"
    /\ shLog = << >>
    /\ nsigs = 0
    /\ quitAtWait = FALSE
    /\ termAt = NoSnap
    /\ exitAt = NoSnap

\* method and arguments of a call of the store, then its locals: i the index
\* its loop found, l the slice it read, data the document it marshalled
NoStoreCall ==
    [method |-> "none", env |-> NoEnv, name |-> EmptyStr,
     u |-> [field |-> "", val |-> ""], written |-> TRUE, i |-> 0, l |-> << >>,
     data |-> << >>, err |-> NoErr]

\* no goroutine is inside the store
StoreIdle ==
    /\ spc = [g \in Callers |-> "idle"]
    /\ scall = [g \in Callers |-> NoStoreCall]

\* confirmModel == nil
NoModel == [selected |-> -1]

\* no program of the terminal UI runs yet
UiInit ==
    /\ uiKind = "none"
    /\ currentView = "MainView"
    /\ cursor = ""
    /\ showConfirm = FALSE
    /\ confirmModel = NoModel
    /\ selectedEnvName = ""
    /\ inbox = << >>
    /\ deleteCalls = << >>
    /\ dialogs = << >>
    /\ confirms = << >>
    /\ nkeys = 0

\* a sync.RWMutex: the goroutine that holds it for writing, those that hold
\* it for reading, and those that have called Lock and wait for it
Free == [w |-> NoHolder, r |-> {}, q |-> {}]

\* a goroutine that is in no call
NoLockCall == [pc |-> "idle", method |-> "none", id |-> 0, todo |-> {}]

\* NewOperationManager: om.mu is free, no Operation and so no op.mu exists
LockInit ==
    /\ mu = (0 :> Free)
    /\ lk = [g \in Callers |-> NoLockCall]
    /\ nlk = 0

\* the resources the registered cleanup tasks release
Resources == {"a", "b"}

\* method is the last method called, err what it returned, ran its runs;
\* again says that the call before it ran the tasks as well; the list and
\* the resources are kept as they were before and after the call
NoCmRet ==
    [method |-> "none", err |-> NoErr, ran |-> << >>, again |-> FALSE,
     tasksBefore |-> << >>, tasksAfter |-> << >>, heldBefore |-> {},
     heldAfter |-> {}, count |-> 0]

\* NewCleanupManager: an empty list
CleanupInit ==
    /\ tasks = << >>
    /\ held = Resources
    /\ cmRet = NoCmRet
    /\ ncm = 0

Init ==
    /\ TrackerInit
    /\ SignalInit
    /\ StoreIdle
    /\ CleanupInit
    /\ UiInit
    /\ state = << >>
    /\ disk = << >>
    /\ branches = InitialBranches
    /\ worktrees = {}
    /\ images = {}
    /\ volumes = {}
    /\ containers = {}
    /\ op = "none"
    /\ pc = "idle"
    /\ opts = NoOpts
    /\ envName = EmptyStr
    /\ env = NoEnv
    /\ cleanup = NoCleanup
    /\ calls = << >>
    /\ compCalls = << >>
    /\ warnings = << >>
    /\ cleanupErrors = << >>
    /\ retErr = NoErr
    /\ pre = << >>
    /\ preDisk = << >>
    /\ nops = 0
    /\ preBranches = {}
    /\ ctxDone = FALSE
    /\ hidden = state
    /\ persistedHere = {}
    /\ LockInit

(* ------------------------------------------------------------------ *)
(* State store (internal/config)                                        *)
(* ------------------------------------------------------------------ *)

ErrWrite == "failed to write state file"
ErrDuplicate == "environment with name already exists"
ErrNotFound == "environment not found"

\* SaveState: the document on disk after the call; written says whether
\* os.WriteFile succeeded (a failed write leaves the old document)
SaveStateDisk(envs, dsk, written) == IF written THEN envs ELSE dsk

SaveStateErr(written) == IF written THEN NoErr ELSE ErrWrite

\* AddEnvironment: duplicate check, append, SaveState
AddEnvironment(envs, dsk, e, written) ==
    IF HasName(envs, e.Name)
    THEN [state |-> envs, disk |-> dsk, err |-> ErrDuplicate]
    ELSE [state |-> Append(envs, e),
          disk |-> SaveStateDisk(Append(envs, e), dsk, written),
          err |-> SaveStateErr(written)]

\* RemoveEnvironment: drop the first record of that name, SaveState
RemoveEnvironment(envs, dsk, name, written) ==
    IF ~HasName(envs, name)
    THEN [state |-> envs, disk |-> dsk, err |-> ErrNotFound]
    ELSE [state |-> RemoveAt(envs, FirstIndex(envs, name)),
          disk |-> SaveStateDisk(RemoveAt(envs, FirstIndex(envs, name)), dsk, written),
          err |-> SaveStateErr(written)]

\* the updater functions a caller may pass to UpdateEnvironment
Updaters ==
    [field : {"Status"}, val : {"running", "stopped", "error"}]
        \cup [field : {"Name"}, val : EnvNames]

\* updater(&m.state.Environments[i])
ApplyUpdater(u, e) ==
    IF u.field = "Name" THEN [e EXCEPT !.Name = u.val]
    ELSE [e EXCEPT !.Status = u.val]

\* UpdateEnvironment: run the updater on the first record of that name, SaveState
UpdateEnvironment(envs, dsk, name, u, written) ==
    IF ~HasName(envs, name)
    THEN [state |-> envs, disk |-> dsk, err |-> ErrNotFound]
    ELSE LET i == FirstIndex(envs, name)
             upd == [envs EXCEPT ![i] = ApplyUpdater(u, envs[i])]
         IN [state |-> upd,
             disk |-> SaveStateDisk(upd, dsk, written),
             err |-> SaveStateErr(written)]

(* ------------------------------------------------------------------ *)
(* CreateEnvironment (internal/environment/manager.go)                  *)
(* ------------------------------------------------------------------ *)

ErrExists == "environment already exists"
ErrFetch == "failed to fetch remote"
ErrCheckRemote == "failed to check remote branch"
ErrNoRemote == "remote branch does not exist"
ErrCheckLocal == "failed to check local branch"
ErrCreateBranch == "failed to create branch"
ErrWorktree == "failed to create worktree"
ErrContainerfile == "containerfile not found"
ErrBuild == "failed to build container image"
ErrVolume == "failed to create volume"
ErrRun == "failed to start container"
ErrAdd == "failed to add environment to state"

\* faulty variant: the record is persisted right after the volume exists
StepAfter_SkipRun(step) ==
    CASE step = "branch" -> "worktree"
      [] step = "worktree" -> "containerfile"
      [] step = "containerfile" -> "build"
      [] step = "build" -> "volume"
      [] step = "volume" -> "persist"
      [] step = "run" -> "persist"
      [] OTHER -> "returned"

\* faulty variant: the image is built before the containerfile is looked for
StepAfter_BuildFirst(step) ==
    CASE step = "branch" -> "worktree"
      [] step = "worktree" -> "build"
      [] step = "build" -> "containerfile"
      [] step = "containerfile" -> "volume"
      [] step = "volume" -> "run"
      [] step = "run" -> "persist"
      [] OTHER -> "returned"

\* lines 171-305: the step that follows a step that succeeded
StepAfter(step) ==
    CASE step = "branch" -> "worktree"
      [] step = "worktree" -> "containerfile"
      [] step = "containerfile" -> "build"
      [] step = "build" -> "volume"
      [] step = "volume" -> "run"
      [] step = "run" -> "persist"
      [] OTHER -> "returned"

\* faulty variant: the derived name is compared with the records' branches
AlreadyExists_ByBranch(envs, name) ==
    \E i \in 1..Len(envs) : envs[i].Branch = name

\* line 84: the derived name already has a record
AlreadyExists(envs, name) == GetEnvironmentFound(envs, name)

\* lines 113-121: the record CreateEnvironment starts from
NewEnv(name, branchName) ==
    [Name |-> name,
     Branch |-> branchName,
     WorktreePath |-> WorktreePathOf(name),
     ContainerID |-> 0,
     ContainerName |-> ContainerNameOf(name),
     VolumeName |-> VolumeNameOf(name),
     Status |-> "creating"]

\* exec.CommandContext(ctx, ...): a command can run to its end only while
\* ctx is not done; with a done ctx it is not started, or it is killed
Ran(ok) == ok /\ ~ctxDone

\* a step returns err: the named result is set and the deferred function runs
Fail(err) ==
    /\ retErr' = err
    /\ pc' = "defer"

\* lines 76-121: derive the name, refuse a duplicate, set up env and cleanup
CreateStart(o) ==
    /\ Idle
    /\ nops' = nops + 1
    /\ op' = "create"
    /\ opts' = o
    /\ envName' = GenerateEnvironmentName(o.BranchName)
    /\ pre' = state
    /\ preDisk' = disk
    /\ preBranches' = branches
    /\ ctxDone' = FALSE
    /\ calls' = << >>
    /\ compCalls' = << >>
    /\ warnings' = << >>
    /\ cleanupErrors' = << >>
    /\ cleanup' = NoCleanup
    /\ IF AlreadyExists(state, envName')
       THEN /\ retErr' = ErrExists
            /\ pc' = "returned"
            /\ env' = NoEnv
       ELSE /\ retErr' = NoErr
            /\ pc' = "branch"
            /\ env' = NewEnv(envName', o.BranchName)
    /\ UNCHANGED <<storeVars, worldVars, otherVars,
                   persistedHere>>

\* step 1, remote branch: FetchRemote, then RemoteBranchExists
CreateStepRemoteBranch ==
    /\ pc = "branch"
    /\ opts.IsRemoteBranch
    /\ \E fetched \in BOOLEAN, exists \in {"yes", "no", "err"} :
         IF ~Ran(fetched)
         THEN /\ calls' = Append(calls, Call("FetchRemote", "err"))
              /\ Fail(ErrFetch)
         ELSE /\ calls' = calls \o <<Call("FetchRemote", "ok"),
                                     Call("RemoteBranchExists", exists)>>
              /\ CASE exists = "err" -> Fail(ErrCheckRemote)
                   [] exists = "no" -> Fail(ErrNoRemote)
                   [] OTHER -> /\ pc' = StepAfter("branch")
                               /\ UNCHANGED retErr
    /\ UNCHANGED <<storeVars, worldVars, op, opts, envName, env, cleanup,
                   compCalls, warnings, cleanupErrors, pre, preDisk, nops, callVars, otherVars,
                   persistedHere>>

\* faulty variant: the flag is set whenever step 1 succeeds
BranchCreatedAfter_Always(existed) == TRUE

\* lines 186-198: the branchCreated flag after step 1 succeeded for a local
\* branch; it is set only where CreateBranch was called
BranchCreatedAfter(existed) == ~existed

\* step 1, local branch: BranchExists, then CreateBranch when it does not exist
CreateStepLocalBranch ==
    /\ pc = "branch"
    /\ ~opts.IsRemoteBranch
    /\ \E probed \in BOOLEAN, created \in BOOLEAN :
         IF ~Ran(probed)
         THEN /\ calls' = Append(calls, Call("BranchExists", "err"))
              /\ Fail(ErrCheckLocal)
              /\ UNCHANGED <<branches, cleanup>>
         ELSE IF opts.BranchName \in branches
         THEN /\ calls' = Append(calls, Call("BranchExists", "yes"))
              /\ cleanup' = [cleanup EXCEPT !.branchCreated = BranchCreatedAfter(TRUE)]
              /\ pc' = StepAfter("branch")
              /\ UNCHANGED <<retErr, branches>>
         ELSE IF ~created
         THEN /\ calls' = calls \o <<Call("BranchExists", "no"),
                                     Call("CreateBranch", "err")>>
              /\ Fail(ErrCreateBranch)
              /\ UNCHANGED <<branches, cleanup>>
         ELSE /\ calls' = calls \o <<Call("BranchExists", "no"),
                                     Call("CreateBranch", "ok")>>
              /\ branches' = branches \cup {opts.BranchName}
              /\ cleanup' = [cleanup EXCEPT !.branchCreated = BranchCreatedAfter(FALSE)]
              /\ pc' = StepAfter("branch")
              /\ UNCHANGED retErr
    /\ UNCHANGED <<storeVars, worktrees, images, volumes, containers, op, opts,
                   envName, env, compCalls, warnings, cleanupErrors, pre, preDisk, nops, callVars, otherVars,
                   persistedHere>>

\* git.go validateWorktreeCreation: the target directory is in use, the
\* branch is checked out in another worktree, or a local branch is missing
WorktreeRefused(path, branchName, isRemote) ==
    \/ \E w \in worktrees : w.path = path
    \/ \E w \in worktrees : w.branch = branchName
    \/ (~isRemote /\ branchName \notin branches)

\* step 2: CreateWorktree at {worktreeDir}/{envName}
CreateStepWorktree ==
    /\ pc = "worktree"
    /\ \E added \in BOOLEAN :
         IF Ran(added) /\ ~WorktreeRefused(env.WorktreePath, opts.BranchName, opts.IsRemoteBranch)
         THEN /\ calls' = Append(calls, Call("CreateWorktree", "ok"))
              /\ worktrees' = worktrees \cup
                    {[path |-> env.WorktreePath,
                      branch |-> IF opts.IsRemoteBranch THEN EmptyStr ELSE opts.BranchName]}
              /\ cleanup' = [cleanup EXCEPT !.worktreeCreated = TRUE]
              /\ pc' = StepAfter("worktree")
              /\ UNCHANGED retErr
         ELSE /\ calls' = Append(calls, Call("CreateWorktree", "err"))
              /\ Fail(ErrWorktree)
              /\ UNCHANGED <<worktrees, cleanup>>
    /\ UNCHANGED <<storeVars, branches, images, volumes, containers, op, opts,
                   envName, env, compCalls, warnings, cleanupErrors, pre, preDisk, nops, callVars, otherVars,
                   persistedHere>>

\* step 3: os.Stat of the containerfile inside the new worktree
CreateStepContainerfile ==
    /\ pc = "containerfile"
    /\ \E present \in BOOLEAN :
         IF present
         THEN /\ calls' = Append(calls, Call("StatContainerfile", "ok"))
              /\ pc' = StepAfter("containerfile")
              /\ UNCHANGED retErr
         ELSE /\ calls' = Append(calls, Call("StatContainerfile", "err"))
              /\ Fail(ErrContainerfile)
    /\ UNCHANGED <<storeVars, worldVars, op, opts, envName, env, cleanup,
                   compCalls, warnings, cleanupErrors, pre, preDisk, nops, callVars, otherVars,
                   persistedHere>>

\* step 4: Build the image cc-buddy-{envName}:latest
CreateStepBuild ==
    /\ pc = "build"
    /\ \E built \in BOOLEAN :
         IF Ran(built)
         THEN /\ calls' = Append(calls, Call("Build", "ok"))
              /\ images' = images \cup {ImageTagOf(envName)}
              /\ cleanup' = [cleanup EXCEPT !.imageBuilt = TRUE,
                                            !.imageName = ImageTagOf(envName)]
              /\ pc' = StepAfter("build")
              /\ UNCHANGED retErr
         ELSE /\ calls' = Append(calls, Call("Build", "err"))
              /\ Fail(ErrBuild)
              /\ UNCHANGED <<images, cleanup>>
    /\ UNCHANGED <<storeVars, branches, worktrees, volumes, containers, op, opts,
                   envName, env, compCalls, warnings, cleanupErrors, pre, preDisk, nops, callVars, otherVars,
                   persistedHere>>

\* step 5: CreateVolume cc-buddy-{envName}-data
CreateStepVolume ==
    /\ pc = "volume"
    /\ \E created \in BOOLEAN :
         IF Ran(created)
         THEN /\ calls' = Append(calls, Call("CreateVolume", "ok"))
              /\ volumes' = volumes \cup {env.VolumeName}
              /\ cleanup' = [cleanup EXCEPT !.volumeCreated = TRUE]
              /\ pc' = StepAfter("volume")
              /\ UNCHANGED retErr
         ELSE /\ calls' = Append(calls, Call("CreateVolume", "err"))
              /\ Fail(ErrVolume)
              /\ UNCHANGED <<volumes, cleanup>>
    /\ UNCHANGED <<storeVars, branches, worktrees, images, containers, op, opts,
                   envName, env, compCalls, warnings, cleanupErrors, pre, preDisk, nops, callVars, otherVars,
                   persistedHere>>

\* faulty variant: the status is left at "creating"
FinalEnv_StatusKept(e, containerID) == [e EXCEPT !.ContainerID = containerID]

\* lines 296-297: the record as it is handed to AddEnvironment
FinalEnv(e, containerID) ==
    [e EXCEPT !.ContainerID = containerID, !.Status = "running"]

\* the ID the runtime gives the container of this call: never handed out
\* before and not empty (0 stands for the empty string)
FreshID == nops

\* step 6: Run the container detached under the name cc-buddy-{envName};
\* on success lines 293-297 set the flag and complete the record
CreateStepRun ==
    /\ pc = "run"
    /\ \/ /\ calls' = Append(calls, Call("Run", "err"))
          /\ Fail(ErrRun)
          /\ UNCHANGED <<containers, cleanup, env>>
       \/ /\ ~\E c \in containers : c.name = env.ContainerName
          /\ Ran(TRUE)
          /\ \E id \in {FreshID} :
               /\ calls' = Append(calls, Call("Run", "ok"))
               /\ containers' = containers \cup {[id |-> id, name |-> env.ContainerName]}
               /\ cleanup' = [cleanup EXCEPT !.containerStarted = TRUE]
               /\ env' = FinalEnv(env, id)
               /\ pc' = StepAfter("run")
               /\ UNCHANGED retErr
    /\ UNCHANGED <<storeVars, branches, worktrees, images, volumes, op, opts,
                   envName, compCalls, warnings, cleanupErrors, pre, preDisk, nops, callVars, otherVars,
                   persistedHere>>

\* step 7: AddEnvironment, then the environmentInState flag
\* faulty variant: the flag is set before AddEnvironment is called
InStateAfterAdd_Always(err) == TRUE

\* cleanup.environmentInState = true, line 303, past the return of line 301
InStateAfterAdd(err) == err = NoErr

CreateStepPersist ==
    /\ pc = "persist"
    /\ \E written \in BOOLEAN :
         LET r == AddEnvironment(state, disk, env, written) IN
         /\ state' = r.state
         /\ disk' = r.disk
         /\ IF r.err = NoErr
            THEN /\ calls' = Append(calls, Call("AddEnvironment", "ok"))
                 /\ pc' = StepAfter("persist")
                 /\ UNCHANGED retErr
            ELSE /\ calls' = Append(calls, Call("AddEnvironment", "err"))
                 /\ Fail(ErrAdd)
         /\ cleanup' = [cleanup EXCEPT !.environmentInState = InStateAfterAdd(r.err)]
         /\ persistedHere' = IF r.err = NoErr THEN persistedHere \cup {envName} ELSE persistedHere
    /\ UNCHANGED <<worldVars, op, opts, envName, env, compCalls, warnings,
                   cleanupErrors, pre, preDisk, nops, callVars, otherVars>>

\* faulty variant: the resources are released in the order they were made
CompensationCalls_CreationOrder(cl, e) ==
    (IF cl.branchCreated THEN <<"DeleteBranch">> ELSE << >>)
    \o (IF cl.worktreeCreated THEN <<"RemoveWorktree">> ELSE << >>)
    \o (IF cl.imageBuilt /\ cl.imageName # EmptyStr THEN <<"RemoveImage">> ELSE << >>)
    \o (IF cl.volumeCreated THEN <<"RemoveVolume">> ELSE << >>)
    \o (IF cl.containerStarted /\ e.ContainerID # 0 THEN <<"Stop", "Remove">> ELSE << >>)
    \o (IF cl.environmentInState THEN <<"RemoveEnvironment">> ELSE << >>)

\* gitOps.DeleteBranch (called at line 158): the local branch is gone
DeleteBranch(bs, branchName) == bs \ {branchName}

\* lines 124-169: the calls the deferred function issues, in its order
CompensationCalls(cl, e) ==
    (IF cl.containerStarted /\ e.ContainerID # 0 THEN <<"Stop", "Remove">> ELSE << >>)
    \o (IF cl.volumeCreated THEN <<"RemoveVolume">> ELSE << >>)
    \o (IF cl.imageBuilt /\ cl.imageName # EmptyStr THEN <<"RemoveImage">> ELSE << >>)
    \o (IF cl.worktreeCreated THEN <<"RemoveWorktree">> ELSE << >>)
    \o (IF cl.branchCreated THEN <<"DeleteBranch">> ELSE << >>)
    \o (IF cl.environmentInState THEN <<"RemoveEnvironment">> ELSE << >>)

\* call c of the sequence was issued and succeeded; F is the set that fail
Succeeded(seq, F, c) == c \in Range(seq) /\ c \notin F

\* the calls of the sequence that failed, in order
RECURSIVE FailedOf(_, _, _)
FailedOf(seq, F, i) ==
    IF i > Len(seq) THEN << >>
    ELSE (IF seq[i] \in F THEN <<seq[i]>> ELSE << >>) \o FailedOf(seq, F, i + 1)

\* faulty variant: a failed compensation call replaces the returned error
DeferredRetErr_Overwritten(err, failed) ==
    IF failed # << >> THEN "cleanup failed" ELSE err

\* the named result after the deferred function: it only prints warnings
DeferredRetErr(err, failed) == err

\* the sets of compensation calls that may fail: the deferred function hands
\* the ctx of the call to every adapter, so with a done ctx every adapter
\* call fails; RemoveEnvironment takes no ctx
CompensationFailures(seq) ==
    IF ctxDone THEN {Range(seq) \ {"RemoveEnvironment"}} ELSE FailureSets(seq)

\* the deferred function of CreateEnvironment, run when a step returned an error
CreateDeferredCleanup ==
    /\ pc = "defer"
    /\ LET seq == CompensationCalls(cleanup, env) IN
       \E res \in CompensationFailures(seq) :
         /\ compCalls' = [i \in 1..Len(seq) |->
                             Call(seq[i], IF seq[i] \in res THEN "err" ELSE "ok")]
         /\ warnings' = FailedOf(seq, res, 1)
         /\ containers' = IF Succeeded(seq, res, "Remove")
                          THEN {c \in containers : c.id # env.ContainerID}
                          ELSE containers
         /\ volumes' = IF Succeeded(seq, res, "RemoveVolume")
                       THEN volumes \ {env.VolumeName} ELSE volumes
         /\ images' = IF Succeeded(seq, res, "RemoveImage")
                      THEN images \ {cleanup.imageName} ELSE images
         /\ worktrees' = IF Succeeded(seq, res, "RemoveWorktree")
                         THEN {w \in worktrees : w.path # env.WorktreePath}
                         ELSE worktrees
         /\ branches' = IF Succeeded(seq, res, "DeleteBranch")
                        THEN DeleteBranch(branches, opts.BranchName) ELSE branches
         /\ IF "RemoveEnvironment" \in Range(seq)
            THEN LET r == RemoveEnvironment(state, disk, envName,
                                            Succeeded(seq, res, "RemoveEnvironment"))
                 IN /\ state' = r.state
                    /\ disk' = r.disk
            ELSE UNCHANGED storeVars
         /\ retErr' = DeferredRetErr(retErr, FailedOf(seq, res, 1))
    /\ pc' = "returned"
    /\ UNCHANGED <<op, opts, envName, env, cleanup, calls, cleanupErrors, pre,
                   preDisk, nops, callVars, otherVars,
                   persistedHere>>

(* ------------------------------------------------------------------ *)
(* DeleteEnvironment / CleanupEnvironment                               *)
(* ------------------------------------------------------------------ *)

ErrEnvNotFound == "environment not found"
ErrCleanup == "cleanup errors"

\* an operation that is not CreateEnvironment starts: its locals are reset
StartOp(kind, name) ==
    /\ Idle
    /\ nops' = nops + 1
    /\ op' = kind
    /\ envName' = name
    /\ pre' = state
    /\ preDisk' = disk
    /\ preBranches' = branches
    /\ ctxDone' = FALSE
    /\ opts' = NoOpts
    /\ env' = NoEnv
    /\ cleanup' = NoCleanup
    /\ compCalls' = << >>
    /\ warnings' = << >>
    /\ pc' = "returned"
    /\ persistedHere' = IF kind = "delete" THEN persistedHere \ {name} ELSE persistedHere
    /\ UNCHANGED otherVars

\* the record was not found: nothing is called, nothing changes
ReturnNotFound(kind, name) ==
    /\ StartOp(kind, name)
    /\ retErr' = ErrEnvNotFound
    /\ calls' = << >>
    /\ cleanupErrors' = << >>
    /\ UNCHANGED <<storeVars, worldVars>>

\* lines 347-390: the teardown steps CleanupEnvironment has for a record
CleanupSteps(e) ==
    (IF e.ContainerID # 0 THEN <<"Stop", "Remove">>
     ELSE IF e.ContainerName # EmptyStr THEN <<"StopByName", "RemoveByName">>
     ELSE << >>)
    \o <<"RemoveImage">>
    \o (IF e.VolumeName # EmptyStr THEN <<"RemoveVolume">> ELSE << >>)
    \o (IF e.WorktreePath # EmptyStr THEN <<"RemoveWorktree">> ELSE << >>)
    \o <<"RemoveEnvironment">>

\* faulty variant: the first failing step ends the teardown
CleanupAttempted_UntilFailure(seq, res) ==
    IF \E i \in 1..Len(seq) : seq[i] \in res
    THEN SubSeq(seq, 1, CHOOSE i \in 1..Len(seq) :
                          /\ seq[i] \in res
                          /\ \A j \in 1..(i - 1) : seq[j] \notin res)
    ELSE seq

\* no step returns early: the steps attempted, given which of them fail
CleanupAttempted(seq, res) == seq

\* faulty variant: a failed volume removal is not reported either
CleanupReported_NoVolume ==
    {"Stop", "Remove", "RemoveWorktree", "RemoveEnvironment"}

\* the steps whose failure is appended to cleanupErrors
CleanupReported ==
    {"Stop", "Remove", "RemoveVolume", "RemoveWorktree", "RemoveEnvironment"}

\* "failed to ..." entries of cleanupErrors, in order; F is the set that fail
RECURSIVE CleanupErrorsOf(_, _, _)
CleanupErrorsOf(seq, F, i) ==
    IF i > Len(seq) THEN << >>
    ELSE (IF seq[i] \in F /\ seq[i] \in CleanupReported THEN <<seq[i]>> ELSE << >>)
         \o CleanupErrorsOf(seq, F, i + 1)

\* CleanupEnvironment: every teardown step, errors collected
CleanupEnvironment(name) ==
    LET e == IF GetEnvironmentFound(state, name)
             THEN GetEnvironment(state, name)
             ELSE [NoEnv EXCEPT !.Name = name]
        all == CleanupSteps(e)
    IN \E res \in FailureSets(all) :
        LET seq == CleanupAttempted(all, res)
            r == IF "RemoveEnvironment" \in Range(seq)
                 THEN RemoveEnvironment(state, disk, name, "RemoveEnvironment" \notin res)
                 ELSE [state |-> state, disk |-> disk, err |-> NoErr]
            out == (res \ {"RemoveEnvironment"})
                      \cup (IF r.err # NoErr THEN {"RemoveEnvironment"} ELSE {})
        IN /\ StartOp("delete", name)
           /\ calls' = [i \in 1..Len(seq) |->
                           Call(seq[i], IF seq[i] \in out THEN "err" ELSE "ok")]
           /\ containers' =
                 IF Succeeded(seq, res, "Remove")
                 THEN {c \in containers : c.id # e.ContainerID}
                 ELSE IF Succeeded(seq, res, "RemoveByName")
                 THEN {c \in containers : c.name # e.ContainerName}
                 ELSE containers
           /\ images' = IF Succeeded(seq, res, "RemoveImage")
                        THEN images \ {ImageTagOf(name)} ELSE images
           /\ volumes' = IF Succeeded(seq, res, "RemoveVolume")
                         THEN volumes \ {e.VolumeName} ELSE volumes
           /\ worktrees' = IF Succeeded(seq, res, "RemoveWorktree")
                           THEN {w \in worktrees : w.path # e.WorktreePath}
                           ELSE worktrees
           /\ UNCHANGED branches
           /\ state' = r.state
           /\ disk' = r.disk
           /\ cleanupErrors' = CleanupErrorsOf(seq, out, 1)
           /\ retErr' = IF Len(cleanupErrors') > 0 THEN ErrCleanup ELSE NoErr

\* faulty variant: no lookup before the teardown
DeleteEnvironment_NoLookup(name) == CleanupEnvironment(name)

\* DeleteEnvironment: the record must exist, then CleanupEnvironment
DeleteEnvironment(name) ==
    IF ~GetEnvironmentFound(state, name)
    THEN ReturnNotFound("delete", name)
    ELSE CleanupEnvironment(name)

(* ------------------------------------------------------------------ *)
(* OpenTerminal / ExecuteCommand                                        *)
(* ------------------------------------------------------------------ *)

\* results of Runtime.Status: an error, or ContainerStatus.Running
Probes == {"err", "running", "stopped"}

ErrNoContainer == "environment has no running container"
ErrStatus == "failed to check container status"
ErrNotRunning == "container is not running"
ErrExec == "exec failed"

\* faulty variant: any answer of the probe counts as running
StatusRunning_Always(probe) == TRUE

\* status.Running of a probe that returned no error
StatusRunning(probe) == probe = "running"

\* the common body of OpenTerminal and ExecuteCommand after the lookup:
\* container ID present, Status probe reports running, then the exec entry point
ExecInContainer(kind, name, entry) ==
    LET e == GetEnvironment(state, name) IN
    /\ StartOp(kind, name)
    /\ cleanupErrors' = << >>
    /\ UNCHANGED <<storeVars, worldVars>>
    /\ IF e.ContainerID = 0
       THEN /\ retErr' = ErrNoContainer
            /\ calls' = << >>
       ELSE \E probe \in Probes, ran \in BOOLEAN :
              CASE probe = "err" ->
                     /\ retErr' = ErrStatus
                     /\ calls' = <<Call("Status", "err")>>
                [] ~StatusRunning(probe) ->
                     /\ retErr' = ErrNotRunning
                     /\ calls' = <<Call("Status", probe)>>
                [] OTHER ->
                     /\ retErr' = IF ran THEN NoErr ELSE ErrExec
                     /\ calls' = <<Call("Status", probe),
                                   Call(entry, IF ran THEN "ok" ELSE "err")>>

\* OpenTerminal: /bin/bash through the interactive entry point
OpenTerminal(name) ==
    IF ~GetEnvironmentFound(state, name)
    THEN ReturnNotFound("terminal", name)
    ELSE ExecInContainer("terminal", name, "Exec")

\* ExecuteCommand: interactive or non-interactive entry point
ExecuteCommand(name, interactive) ==
    IF ~GetEnvironmentFound(state, name)
    THEN ReturnNotFound("exec", name)
    ELSE ExecInContainer("exec", name,
                         IF interactive THEN "Exec" ELSE "ExecNonInteractive")

(* ------------------------------------------------------------------ *)
(* ListEnvironments                                                     *)
(* ------------------------------------------------------------------ *)

\* lines 314-321: the status a record has after its probe; a record without
\* a container ID is not probed
ListedStatus(e, probe) ==
    IF e.ContainerID = 0 THEN e.Status
    ELSE IF probe = "running" THEN "running" ELSE "stopped"

\* the Status calls of one listing, in the order of the records
RECURSIVE StatusCalls(_, _, _)
StatusCalls(envs, probes, i) ==
    IF i > Len(envs) THEN << >>
    ELSE (IF envs[i].ContainerID # 0 THEN <<Call("Status", probes[i])>> ELSE << >>)
         \o StatusCalls(envs, probes, i + 1)

\* faulty variant: the listing saves what it derived
ListDisk_Saved(envs, dsk) == envs

\* the persisted document after a listing: ListEnvironments has no SaveState
ListDisk(envs, dsk) == dsk

\* ListEnvironments: probe every record that has a container ID and set its
\* status in the slice GetState() hands out, which is the store's own slice
ListEnvironments ==
    \E probes \in [1..Len(state) -> Probes] :
        /\ StartOp("list", EmptyStr)
        /\ state' = [i \in 1..Len(state) |->
                        [state[i] EXCEPT !.Status = ListedStatus(state[i], probes[i])]]
        /\ disk' = ListDisk(state', disk)
        /\ calls' = StatusCalls(state, probes, 1)
        /\ cleanupErrors' = << >>
        /\ retErr' = NoErr
        /\ UNCHANGED worldVars

(* ------------------------------------------------------------------ *)
(* Specification of the orchestrator                                    *)
(* ------------------------------------------------------------------ *)

Next ==
    \/ \E o \in Options : CreateStart(o)
    \/ CreateStepRemoteBranch
    \/ CreateStepLocalBranch
    \/ CreateStepWorktree
    \/ CreateStepContainerfile
    \/ CreateStepBuild
    \/ CreateStepVolume
    \/ CreateStepRun
    \/ CreateStepPersist
    \/ CreateDeferredCleanup
    \/ \E n \in EnvNames : DeleteEnvironment(n)
    \/ \E n \in EnvNames : OpenTerminal(n)
    \/ \E n \in EnvNames, i \in BOOLEAN : ExecuteCommand(n, i)
    \/ ListEnvironments

Spec == Init /\ [][Next]_vars

(* ------------------------------------------------------------------ *)
(* Specification of the calls that only read a loaded State             *)
(* ------------------------------------------------------------------ *)

\* a record as LoadState may find it in environments.json
LoadedRecord(b, id, status) ==
    [NewEnv(GenerateEnvironmentName(b), b) EXCEPT !.ContainerID = id, !.Status = status]

\* LoadState: the documents the program starts from; container_id may be ""
LoadedStates ==
    { << >>,
      <<LoadedRecord(<<"x">>, 0, "creating")>>,
      <<LoadedRecord(<<"x">>, 1, "running")>>,
      <<LoadedRecord(<<"x">>, 1, "stopped")>>,
      <<LoadedRecord(<<"x">>, 1, "running"), LoadedRecord(<<"f", "/", "x">>, 0, "error")>> }

\* the program after NewManager and LoadState found a document
InitLoaded ==
    /\ TrackerInit
    /\ SignalInit
    /\ StoreIdle
    /\ CleanupInit
    /\ UiInit
    /\ state \in LoadedStates
    /\ disk = state
    /\ branches = InitialBranches
    /\ worktrees = {}
    /\ images = {}
    /\ volumes = {}
    /\ containers = {}
    /\ op = "none"
    /\ pc = "idle"
    /\ opts = NoOpts
    /\ envName = EmptyStr
    /\ env = NoEnv
    /\ cleanup = NoCleanup
    /\ calls = << >>
    /\ compCalls = << >>
    /\ warnings = << >>
    /\ cleanupErrors = << >>
    /\ retErr = NoErr
    /\ pre = << >>
    /\ preDisk = << >>
    /\ nops = 0
    /\ preBranches = {}
    /\ ctxDone = FALSE
    /\ hidden = state
    /\ persistedHere = {}
    /\ LockInit

NextLoaded ==
    \/ \E n \in EnvNames : OpenTerminal(n)
    \/ \E n \in EnvNames, i \in BOOLEAN : ExecuteCommand(n, i)
    \/ ListEnvironments

SpecLoaded == InitLoaded /\ [][NextLoaded]_vars

(* ------------------------------------------------------------------ *)
(* Specification of CreateEnvironment under a ctx its caller may cancel *)
(* ------------------------------------------------------------------ *)

\* positions of CreateEnvironment between two of its steps
CreateSteps == {"branch", "worktree", "containerfile", "build", "volume", "run", "persist"}

\* the caller cancels the ctx it passed while the call is in flight
CancelContext ==
    /\ op = "create"
    /\ pc \in CreateSteps
    /\ ~ctxDone
    /\ ctxDone' = TRUE
    /\ UNCHANGED <<storeVars, worldVars, op, pc, opts, envName, env, cleanup,
                   calls, compCalls, warnings, cleanupErrors, retErr, pre,
                   preDisk, nops, preBranches, otherVars,
                   persistedHere>>

NextCancel ==
    \/ \E o \in Options : CreateStart(o)
    \/ CreateStepRemoteBranch
    \/ CreateStepLocalBranch
    \/ CreateStepWorktree
    \/ CreateStepContainerfile
    \/ CreateStepBuild
    \/ CreateStepVolume
    \/ CreateStepRun
    \/ CreateStepPersist
    \/ CreateDeferredCleanup
    \/ CancelContext

SpecCancel == Init /\ [][NextCancel]_vars

(* ------------------------------------------------------------------ *)
(* Specification of the state store on its own: any caller, any call    *)
(* ------------------------------------------------------------------ *)

\* number of calls of the store API in one run
MaxStoreCalls == 3

\* records a caller may pass to AddEnvironment
StoreEnvs ==
    { [NewEnv(GenerateEnvironmentName(b), b) EXCEPT !.ContainerID = 1, !.Status = "running"] :
        b \in {<<"x">>, <<"f", "/", "x">>} }

\* a call of the store API returns r
StoreReturn(kind, name, r) ==
    /\ pc \in {"idle", "returned"}
    /\ nops < MaxStoreCalls
    /\ nops' = nops + 1
    /\ op' = kind
    /\ envName' = name
    /\ pre' = state
    /\ preDisk' = disk
    /\ state' = r.state
    /\ disk' = r.disk
    /\ retErr' = r.err
    /\ pc' = "returned"
    /\ UNCHANGED <<worldVars, opts, env, cleanup, calls, compCalls, warnings,
                   cleanupErrors, callVars, otherVars,
                   persistedHere>>

StoreAdd(e, written) ==
    StoreReturn("add", e.Name, AddEnvironment(state, disk, e, written))

StoreRemove(name, written) ==
    StoreReturn("remove", name, RemoveEnvironment(state, disk, name, written))

StoreUpdate(name, u, written) ==
    StoreReturn("update", name, UpdateEnvironment(state, disk, name, u, written))

StoreNext ==
    \/ \E e \in StoreEnvs, w \in BOOLEAN : StoreAdd(e, w)
    \/ \E n \in EnvNames, w \in BOOLEAN : StoreRemove(n, w)
    \/ \E n \in EnvNames, u \in Updaters, w \in BOOLEAN : StoreUpdate(n, u, w)

SpecStore == Init /\ [][StoreNext]_vars

(* ------------------------------------------------------------------ *)
(* The state store called from two goroutines                           *)
(* ------------------------------------------------------------------ *)
(* config.Manager has no lock.  The commands of the terminal UI run in  *)
(* goroutines of their own, so that two calls of the store can overlap; *)
(* each read and each write of m.state.Environments is a step.          *)

ErrPanic == "panic: index out of range"

\* the documents the store may have loaded
ConcStates ==
    {<< >>} \cup {<<e>> : e \in StoreEnvs}
            \cup {p \in StoreEnvs \X StoreEnvs : p[1].Name # p[2].Name}

\* the calls a goroutine may make
ConcCalls ==
    [method : {"add"}, env : StoreEnvs, name : {EmptyStr},
     u : {[field |-> "", val |-> ""]}, written : BOOLEAN]
      \cup [method : {"remove"}, env : {NoEnv}, name : {e.Name : e \in StoreEnvs},
            u : {[field |-> "", val |-> ""]}, written : BOOLEAN]
      \cup [method : {"update"}, env : {NoEnv}, name : {e.Name : e \in StoreEnvs},
            u : [field : {"Status"}, val : {"stopped"}], written : BOOLEAN]

\* a freshly loaded store, nobody inside
InitConc ==
    /\ TrackerInit
    /\ SignalInit
    /\ StoreIdle
    /\ CleanupInit
    /\ UiInit
    /\ state \in ConcStates
    /\ disk = state
    /\ pre = state
    /\ preDisk = disk
    /\ branches = InitialBranches
    /\ worktrees = {}
    /\ images = {}
    /\ volumes = {}
    /\ containers = {}
    /\ op = "none"
    /\ pc = "idle"
    /\ opts = NoOpts
    /\ envName = EmptyStr
    /\ env = NoEnv
    /\ cleanup = NoCleanup
    /\ calls = << >>
    /\ compCalls = << >>
    /\ warnings = << >>
    /\ cleanupErrors = << >>
    /\ retErr = NoErr
    /\ nops = 0
    /\ preBranches = {}
    /\ ctxDone = FALSE
    /\ hidden = state
    /\ persistedHere = {}
    /\ LockInit

\* what a step of the store leaves alone besides state and disk
storeRest ==
    <<worldVars, op, pc, opts, envName, env, cleanup, calls, compCalls, warnings,
      cleanupErrors, retErr, pre, preDisk, nops, preBranches, ctxDone,
      trackerVars, signalVars, cmVars, uiVars, persistedHere, lockVars>>

\* the call of g ends with err
StoreDone(g, err) ==
    /\ scall' = [scall EXCEPT ![g].err = err]
    /\ spc' = [spc EXCEPT ![g] = IF err = ErrPanic THEN "panicked" ELSE "returned"]

\* a goroutine calls a method of the store
StoreCall(g, c) ==
    /\ spc[g] = "idle"
    /\ scall' = [scall EXCEPT ![g] =
                    [NoStoreCall EXCEPT !.method = c.method, !.env = c.env,
                                        !.name = c.name, !.u = c.u,
                                        !.written = c.written]]
    /\ spc' = [spc EXCEPT ![g] = "scan"]
    /\ UNCHANGED <<state, disk, storeRest>>

\* the name a call looks for
Wanted(c) == IF c.method = "add" THEN c.env.Name ELSE c.name

\* the loop over m.state.Environments at the head of the three methods
StoreScan(g) ==
    /\ spc[g] = "scan"
    /\ UNCHANGED <<state, disk, storeRest>>
    /\ LET c == scall[g]
           found == HasName(state, Wanted(c))
       IN  CASE c.method = "add" /\ found -> StoreDone(g, ErrDuplicate)
             [] c.method # "add" /\ ~found -> StoreDone(g, ErrNotFound)
             [] OTHER ->
                  /\ scall' = [scall EXCEPT ![g].i = FirstIndex(state, Wanted(c))]
                  /\ spc' = [spc EXCEPT ![g] =
                                IF c.method = "update" THEN "apply" ELSE "read"]

\* AddEnvironment line 131, RemoveEnvironment line 139: the operands of
\* append are read
StoreRead(g) ==
    /\ spc[g] = "read"
    /\ UNCHANGED <<state, disk, storeRest>>
    /\ IF scall[g].method = "remove" /\ scall[g].i > Len(state)
       THEN StoreDone(g, ErrPanic)
       ELSE /\ scall' = [scall EXCEPT ![g].l = state]
            /\ spc' = [spc EXCEPT ![g] = "write"]

\* AddEnvironment line 131, RemoveEnvironment line 139: the result of append
\* is assigned to m.state.Environments
StoreWrite(g) ==
    /\ spc[g] = "write"
    /\ state' = IF scall[g].method = "add"
                THEN Append(scall[g].l, scall[g].env)
                ELSE RemoveAt(scall[g].l, scall[g].i)
    /\ spc' = [spc EXCEPT ![g] = "marshal"]
    /\ UNCHANGED <<disk, scall, storeRest>>

\* UpdateEnvironment line 149: updater(&m.state.Environments[i])
StoreApply(g) ==
    /\ spc[g] = "apply"
    /\ UNCHANGED <<disk, storeRest>>
    /\ IF scall[g].i > Len(state)
       THEN /\ StoreDone(g, ErrPanic)
            /\ UNCHANGED state
       ELSE /\ state' = [state EXCEPT ![scall[g].i] = ApplyUpdater(scall[g].u, @)]
            /\ spc' = [spc EXCEPT ![g] = "marshal"]
            /\ UNCHANGED scall

\* SaveState lines 100-103: json.MarshalIndent(m.state)
StoreMarshal(g) ==
    /\ spc[g] = "marshal"
    /\ scall' = [scall EXCEPT ![g].data = state]
    /\ spc' = [spc EXCEPT ![g] = "writefile"]
    /\ UNCHANGED <<state, disk, storeRest>>

\* SaveState lines 105-109: os.WriteFile, and the method returns
StoreWriteFile(g) ==
    /\ spc[g] = "writefile"
    /\ disk' = SaveStateDisk(scall[g].data, disk, scall[g].written)
    /\ StoreDone(g, SaveStateErr(scall[g].written))
    /\ UNCHANGED <<state, storeRest>>

NextConc ==
    \/ \E g \in Callers, c \in ConcCalls : StoreCall(g, c)
    \/ \E g \in Callers : StoreScan(g)
    \/ \E g \in Callers : StoreRead(g)
    \/ \E g \in Callers : StoreWrite(g)
    \/ \E g \in Callers : StoreApply(g)
    \/ \E g \in Callers : StoreMarshal(g)
    \/ \E g \in Callers : StoreWriteFile(g)

SpecConc == InitConc /\ [][NextConc]_vars

(* ------------------------------------------------------------------ *)
(* OperationManager (utils, operation tracker)                          *)
(* ------------------------------------------------------------------ *)
(* om.mu is taken and released inside one step wherever the code holds  *)
(* it for a lookup or a map update only; FailOperation holds it while   *)
(* cleanup functions run, which is several steps.  The per-Operation    *)
(* lock op.mu is always taken and released inside one step.             *)

\* number of tracker calls in one run
MaxTrackerCalls == 4

\* number of StartOperation calls in one run
MaxOperations == 2

\* number of ticks of WaitForCompletion that fit before the deadline of its ctx
MaxPolls == 2

OpIDs == 1..MaxOperations

\* the cleanup functions callers register; none calls back into the tracker
CleanupFns == {"c1", "c2"}

\* progress values callers report, in percent
ProgressValues == {25, 75}

ErrOpNotFound == "operation not found"
ErrDeadline == "context deadline exceeded"

\* the calls a goroutine may make
TrackerCalls ==
    [method : {"start", "getActive", "cancelAll", "forceCancel"},
     id : {0}, fn : {""}, progress : {0}, status : {""}]
      \cup [method : {"complete", "fail", "get"},
            id : OpIDs, fn : {""}, progress : {0}, status : {""}]
      \cup [method : {"update"},
            id : OpIDs, fn : {""}, progress : ProgressValues, status : {"building"}]
      \cup [method : {"register"},
            id : OpIDs, fn : CleanupFns, progress : {0}, status : {""}]

\* StartOperation calls made and not yet past the counter
PendingStarts ==
    Cardinality({g \in Goroutines : tpc[g] = "lock" /\ tcall[g].method = "start"})

\* where a call starts: WaitForCompletion at its select, the others at om.mu
CallEntry(m) == IF m = "wait" THEN "select" ELSE "lock"

\* a goroutine calls a method of the tracker
TrackerCall(g, c) ==
    /\ tpc[g] = "idle"
    /\ tcalls < MaxTrackerCalls
    /\ c.method = "start" => idCounter + PendingStarts < MaxOperations
    /\ tcalls' = tcalls + 1
    /\ tcall' = [tcall EXCEPT ![g] =
                    [method |-> c.method, id |-> c.id, fn |-> c.fn,
                     progress |-> c.progress, status |-> c.status,
                     attached |-> IF c.id \in DOMAIN opObj
                                  THEN opObj[c.id].Cleanup ELSE << >>,
                     found |-> FALSE, snap |-> << >>, i |-> 0, polls |-> 0,
                     deadline |-> "pending"]]
    /\ tpc' = [tpc EXCEPT ![g] = CallEntry(c.method)]
    /\ UNCHANGED <<operations, opObj, idCounter, omMu, cancelled, forced, cleanupLog,
                   issued, tret>>
    /\ UNCHANGED nonTrackerVars

\* goroutine g is at om.mu with a call of method m and can take the lock
AtLock(g, m) ==
    /\ tpc[g] = "lock"
    /\ tcall[g].method = m
    /\ omMu = NoHolder

\* faulty variant: the identifier is looked up among all Operations ever allocated
Exists_EverAllocated(id) == id \in DOMAIN opObj

\* op, exists := om.operations[id]
Exists(id) == id \in operations

\* the lookup of the call of g: its exists result is kept
Lookup(g) == [tcall EXCEPT ![g].found = tcall[g].id \in operations]

\* the call of g returns; what its last step did to the tracker is kept
Return(g, err, id, ops) ==
    /\ tret' = [tret EXCEPT ![g] =
                   [err |-> err, id |-> id, ops |-> ops,
                    obj |-> IF id \in DOMAIN opObj' THEN opObj'[id] ELSE NoOperation,
                    gone |-> operations \ operations',
                    new |-> operations' \ operations,
                    live |-> operations',
                    same |-> TrackerView' = TrackerView,
                    cleaning |-> {tcall[h].id :
                                    h \in {k \in Goroutines \ {g} : tpc[k] = "cleanup"}}]]
    /\ tpc' = [tpc EXCEPT ![g] = "idle"]

\* faulty variant: the identifier is taken from the size of the map
NextID_ByCount(counter, liveSet) == Cardinality(liveSet) + 1

\* lines 81-82: om.idCounter++, then the identifier "op-<counter>"
NextID(counter, liveSet) == counter + 1

\* StartOperation, lines 75-99, under om.mu.Lock
StartOperation(g) ==
    /\ AtLock(g, "start")
    /\ UNCHANGED nonTrackerVars
    /\ LET id == NextID(idCounter, operations) IN
       /\ idCounter' = idCounter + 1
       /\ opObj' = (id :> NewOperation) @@ opObj
       /\ operations' = operations \cup {id}
       /\ cancelled' = cancelled \ {id}
       /\ UNCHANGED forced
       /\ issued' = Append(issued, id)
       /\ UNCHANGED <<omMu, cleanupLog, tcall, tcalls>>
       /\ Return(g, NoErr, id, {})

\* CompleteOperation, lines 102-120, under om.mu.Lock
CompleteOperation(g) ==
    /\ AtLock(g, "complete")
    /\ UNCHANGED nonTrackerVars
    /\ LET id == tcall[g].id IN
       /\ tcall' = Lookup(g)
       /\ IF ~Exists(id)
          THEN /\ UNCHANGED <<operations, opObj, idCounter, omMu, cancelled, forced,
                              cleanupLog, issued, tcalls>>
               /\ Return(g, ErrOpNotFound, 0, {})
          ELSE /\ opObj' = [opObj EXCEPT ![id].Status = "completed",
                                         ![id].Progress = 100]
               /\ operations' = operations \ {id}
               /\ UNCHANGED <<idCounter, omMu, cancelled, forced, cleanupLog, issued, tcalls>>
               /\ Return(g, NoErr, 0, {})

\* faulty variant: the Operation is deleted from the map before its cleanup
\* functions run
LiveDuringCleanup_Deleted(liveSet, id) == liveSet \ {id}

\* lines 138-144: delete(om.operations, id) comes after the loop
LiveDuringCleanup(liveSet, id) == liveSet

\* FailOperation, lines 123-138: lookup under om.mu.Lock, status and error
\* set, the range expression op.Cleanup evaluated; om.mu stays held
FailOperationLookup(g) ==
    /\ AtLock(g, "fail")
    /\ UNCHANGED nonTrackerVars
    /\ LET id == tcall[g].id IN
       IF ~Exists(id)
       THEN /\ tcall' = Lookup(g)
            /\ UNCHANGED <<operations, opObj, idCounter, omMu, cancelled, forced,
                           cleanupLog, issued, tcalls>>
            /\ Return(g, ErrOpNotFound, 0, {})
       ELSE /\ opObj' = [opObj EXCEPT ![id].Status = "failed",
                                      ![id].Error = "failed"]
            /\ omMu' = g
            /\ tcall' = [Lookup(g) EXCEPT ![g].snap = opObj[id].Cleanup, ![g].i = 1]
            /\ tpc' = [tpc EXCEPT ![g] = "cleanup"]
            /\ operations' = LiveDuringCleanup(operations, id)
            /\ UNCHANGED <<idCounter, cancelled, forced, cleanupLog,
                           issued, tret, tcalls>>

\* faulty variant: the loop ends at the first cleanup function that fails
AfterCleanup_StopOnError(i, len, res) == IF res = "err" THEN len + 1 ELSE i + 1

\* lines 138-142: an error of a cleanup function is logged, the loop goes on
AfterCleanup(i, len, res) == i + 1

\* FailOperation, lines 138-142: one iteration of the loop over the cleanup
\* functions, om.mu held
FailOperationCleanup(g) ==
    /\ tpc[g] = "cleanup"
    /\ UNCHANGED nonTrackerVars
    /\ omMu = g
    /\ tcall[g].i <= Len(tcall[g].snap)
    /\ \E res \in {"ok", "err"} :
         /\ cleanupLog' = Append(cleanupLog,
               [op |-> tcall[g].id, fn |-> tcall[g].snap[tcall[g].i], res |-> res])
         /\ tcall' = [tcall EXCEPT ![g].i =
                         AfterCleanup(tcall[g].i, Len(tcall[g].snap), res)]
    /\ UNCHANGED <<operations, opObj, idCounter, omMu, cancelled, forced, issued,
                   tpc, tret, tcalls>>

\* FailOperation, lines 144-147: delete from the map, unlock, return nil
FailOperationFinish(g) ==
    /\ tpc[g] = "cleanup"
    /\ UNCHANGED nonTrackerVars
    /\ omMu = g
    /\ tcall[g].i > Len(tcall[g].snap)
    /\ operations' = operations \ {tcall[g].id}
    /\ omMu' = NoHolder
    /\ UNCHANGED <<opObj, idCounter, cancelled, forced, cleanupLog, issued, tcall, tcalls>>
    /\ Return(g, NoErr, 0, {})

\* UpdateProgress, lines 152-158: lookup under om.mu.RLock
UpdateProgressLookup(g) ==
    /\ AtLock(g, "update")
    /\ UNCHANGED nonTrackerVars
    /\ tcall' = Lookup(g)
    /\ UNCHANGED <<operations, opObj, idCounter, omMu, cancelled, forced, cleanupLog,
                   issued, tcalls>>
    /\ IF ~Exists(tcall[g].id)
       THEN Return(g, ErrOpNotFound, 0, {})
       ELSE /\ tpc' = [tpc EXCEPT ![g] = "oplock"]
            /\ UNCHANGED tret

\* UpdateProgress, lines 160-167: progress and status set under op.mu
UpdateProgressSet(g) ==
    /\ tpc[g] = "oplock"
    /\ UNCHANGED nonTrackerVars
    /\ tcall[g].method = "update"
    /\ LET id == tcall[g].id IN
       opObj' = [opObj EXCEPT
                    ![id].Progress = tcall[g].progress,
                    ![id].Status = IF tcall[g].status # ""
                                   THEN tcall[g].status ELSE @]
    /\ UNCHANGED <<operations, idCounter, omMu, cancelled, forced, cleanupLog, issued,
                   tcall, tcalls>>
    /\ Return(g, NoErr, 0, {})

\* RegisterCleanup, lines 230-236: lookup under om.mu.RLock
RegisterCleanupLookup(g) ==
    /\ AtLock(g, "register")
    /\ UNCHANGED nonTrackerVars
    /\ tcall' = Lookup(g)
    /\ UNCHANGED <<operations, opObj, idCounter, omMu, cancelled, forced, cleanupLog,
                   issued, tcalls>>
    /\ IF ~Exists(tcall[g].id)
       THEN Return(g, ErrOpNotFound, 0, {})
       ELSE /\ tpc' = [tpc EXCEPT ![g] = "oplock"]
            /\ UNCHANGED tret

\* RegisterCleanup, lines 238-242: append under op.mu
RegisterCleanupAppend(g) ==
    /\ tpc[g] = "oplock"
    /\ UNCHANGED nonTrackerVars
    /\ tcall[g].method = "register"
    /\ opObj' = [opObj EXCEPT ![tcall[g].id].Cleanup = Append(@, tcall[g].fn)]
    /\ UNCHANGED <<operations, idCounter, omMu, cancelled, forced, cleanupLog, issued,
                   tcall, tcalls>>
    /\ Return(g, NoErr, 0, {})

\* GetOperation, lines 246-256, under om.mu.RLock
GetOperation(g) ==
    /\ AtLock(g, "get")
    /\ UNCHANGED nonTrackerVars
    /\ tcall' = Lookup(g)
    /\ UNCHANGED <<operations, opObj, idCounter, omMu, cancelled, forced, cleanupLog,
                   issued, tcalls>>
    /\ IF ~Exists(tcall[g].id)
       THEN Return(g, ErrOpNotFound, 0, {})
       ELSE Return(g, NoErr, tcall[g].id, {})

\* GetActiveOperations, lines 171-183, under om.mu.RLock
GetActiveOperations(g) ==
    /\ AtLock(g, "getActive")
    /\ UNCHANGED nonTrackerVars
    /\ UNCHANGED <<operations, opObj, idCounter, omMu, cancelled, forced, cleanupLog,
                   issued, tcall, tcalls>>
    /\ Return(g, NoErr, 0, operations)

\* CancelAll, lines 186-194, under om.mu.RLock: Cancel of every Operation in the map
CancelAll(g) ==
    /\ AtLock(g, "cancelAll")
    /\ UNCHANGED nonTrackerVars
    /\ cancelled' = cancelled \cup operations
    /\ UNCHANGED <<operations, opObj, idCounter, omMu, forced, cleanupLog,
                   issued, tcall, tcalls>>
    /\ Return(g, NoErr, 0, {})

\* faulty variant: the Operations stay in the map
AfterForceCancel_Kept(liveSet) == liveSet

\* lines 201-204: delete(om.operations, id) for every key of the map
AfterForceCancel(liveSet) == {}

\* ForceCancel, lines 197-205, under om.mu.Lock: Cancel and delete every Operation
ForceCancel(g) ==
    /\ AtLock(g, "forceCancel")
    /\ UNCHANGED nonTrackerVars
    /\ cancelled' = cancelled \cup operations
    /\ operations' = AfterForceCancel(operations)
    /\ forced' = forced \cup (operations \ operations')
    /\ UNCHANGED <<opObj, idCounter, omMu, cleanupLog, issued, tcall, tcalls>>
    /\ Return(g, NoErr, 0, {})

\* the deadline of the ctx of a WaitForCompletion call passes: after MaxPolls
\* ticks, or at any time while the call waits at om.mu.RLock for a
\* FailOperation whose cleanup functions take their time
Deadline(g) ==
    /\ tcall[g].method = "wait"
    /\ tpc[g] \in {"select", "lock"}
    /\ tcall[g].deadline = "pending"
    /\ tcall[g].polls >= MaxPolls \/ tpc[g] = "lock"
    /\ tcall' = [tcall EXCEPT ![g].deadline =
                    IF operations = {} THEN "drained" ELSE "live"]
    /\ UNCHANGED <<operations, opObj, idCounter, omMu, cancelled, forced,
                   cleanupLog, issued, tpc, tret, tcalls>>
    /\ UNCHANGED nonTrackerVars

\* faulty variant: the count of the map is not looked at
Drained_Always(liveSet) == TRUE

\* lines 217-223: count := len(om.operations), then count == 0
Drained(liveSet) == liveSet = {}

\* WaitForCompletion, lines 208-226, at its select: ctx.Done() is ready once
\* the deadline has passed and the ticker every 100 ms, and select takes
\* either when both are; a tick takes om.mu.RLock, counts the map and returns
\* nil when it is empty; with om.mu held by a writer the goroutine waits at
\* RLock
WaitForCompletionSelect(g) ==
    /\ tpc[g] = "select"
    /\ UNCHANGED nonTrackerVars
    /\ UNCHANGED <<operations, opObj, idCounter, omMu, cancelled, forced,
                   cleanupLog, issued, tcalls>>
    /\ \E ready \in {"tick", "done"} :
         /\ ready = "done" => tcall[g].deadline # "pending"
         /\ ready = "tick" => tcall[g].polls <= MaxPolls
         /\ IF ready = "done"
            THEN /\ UNCHANGED tcall
                 /\ Return(g, ErrDeadline, 0, {})
            ELSE IF omMu # NoHolder
                 THEN /\ tpc' = [tpc EXCEPT ![g] = "lock"]
                      /\ UNCHANGED <<tcall, tret>>
                 ELSE IF Drained(operations)
                      THEN /\ UNCHANGED tcall
                           /\ Return(g, NoErr, 0, {})
                      ELSE /\ tcall' = [tcall EXCEPT ![g].polls = @ + 1]
                           /\ UNCHANGED <<tpc, tret>>

\* WaitForCompletion, lines 217-224, after a wait at om.mu.RLock: the map is
\* counted
WaitForCompletionCount(g) ==
    /\ AtLock(g, "wait")
    /\ UNCHANGED nonTrackerVars
    /\ UNCHANGED <<operations, opObj, idCounter, omMu, cancelled, forced,
                   cleanupLog, issued, tcalls>>
    /\ IF Drained(operations)
       THEN /\ UNCHANGED tcall
            /\ Return(g, NoErr, 0, {})
       ELSE /\ tcall' = [tcall EXCEPT ![g].polls = @ + 1]
            /\ tpc' = [tpc EXCEPT ![g] = "select"]
            /\ UNCHANGED tret

\* the two locks: OperationManager.mu and the mu of an Operation
OmMu == "om.mu"
OpMu == "op.mu"

\* an access of shared memory: the Operation it is in (0 for the map of the
\* tracker), the field, whether it is a write, and the locks held for it
Access(o, f, w, l) == [obj |-> o, field |-> f, write |-> w, locks |-> l]

\* the accesses made by the step goroutine g is about to take
Accesses(g) ==
    LET m == tcall[g].method
        id == tcall[g].id
    IN  IF tpc[g] = "lock" /\ omMu = NoHolder
        THEN CASE m \in {"start", "forceCancel"} ->
                    {Access(0, "operations", TRUE, {OmMu})}
               [] m = "complete" ->
                    {Access(0, "operations", TRUE, {OmMu})}
                      \cup (IF Exists(id)
                            THEN {Access(id, f, TRUE, {OmMu, OpMu}) :
                                     f \in {"Status", "Progress"}}
                            ELSE {})
               [] m = "fail" ->
                    {Access(0, "operations", FALSE, {OmMu})}
                      \cup (IF Exists(id)
                            THEN {Access(id, "Status", TRUE, {OmMu, OpMu}),
                                  Access(id, "Cleanup", FALSE, {OmMu})}
                            ELSE {})
               [] m = "getActive" ->
                    {Access(0, "operations", FALSE, {OmMu})}
                      \cup {Access(o, f, FALSE, {OmMu, OpMu}) :
                               o \in operations,
                               f \in {"Status", "Progress", "Cleanup"}}
               [] OTHER -> {Access(0, "operations", FALSE, {OmMu})}
        ELSE IF tpc[g] = "oplock"
        THEN IF m = "update"
             THEN {Access(id, f, TRUE, {OpMu}) : f \in {"Status", "Progress"}}
             ELSE {Access(id, "Cleanup", TRUE, {OpMu})}
        ELSE IF tpc[g] = "cleanup" /\ tcall[g].i > Len(tcall[g].snap)
        THEN {Access(0, "operations", TRUE, {OmMu})}
        ELSE {}

\* two accesses of the same memory, one of them a write, with no lock in common
Race(a, b) ==
    /\ a.obj = b.obj
    /\ a.field = b.field
    /\ a.write \/ b.write
    /\ a.locks \cap b.locks = {}

NextTracker ==
    \/ \E g \in Callers, c \in TrackerCalls : TrackerCall(g, c)
    \/ \E g \in Callers : StartOperation(g)
    \/ \E g \in Callers : CompleteOperation(g)
    \/ \E g \in Callers : FailOperationLookup(g)
    \/ \E g \in Callers : FailOperationCleanup(g)
    \/ \E g \in Callers : FailOperationFinish(g)
    \/ \E g \in Callers : UpdateProgressLookup(g)
    \/ \E g \in Callers : UpdateProgressSet(g)
    \/ \E g \in Callers : RegisterCleanupLookup(g)
    \/ \E g \in Callers : RegisterCleanupAppend(g)
    \/ \E g \in Callers : GetOperation(g)
    \/ \E g \in Callers : GetActiveOperations(g)
    \/ \E g \in Callers : CancelAll(g)
    \/ \E g \in Callers : ForceCancel(g)

SpecTracker == Init /\ [][NextTracker]_vars

\* the calls of a shutdown: Operations are started, looked at, cancelled,
\* waited for, and ended by their owners
DrainCalls ==
    [method : {"start", "getActive", "cancelAll", "wait"},
     id : {0}, fn : {""}, progress : {0}, status : {""}]
      \cup [method : {"complete", "fail"},
            id : OpIDs, fn : {""}, progress : {0}, status : {""}]
      \cup [method : {"register"},
            id : OpIDs, fn : CleanupFns, progress : {0}, status : {""}]

NextDrain ==
    \/ \E g \in Callers, c \in DrainCalls : TrackerCall(g, c)
    \/ \E g \in Callers : StartOperation(g)
    \/ \E g \in Callers : CompleteOperation(g)
    \/ \E g \in Callers : FailOperationLookup(g)
    \/ \E g \in Callers : FailOperationCleanup(g)
    \/ \E g \in Callers : FailOperationFinish(g)
    \/ \E g \in Callers : RegisterCleanupLookup(g)
    \/ \E g \in Callers : RegisterCleanupAppend(g)
    \/ \E g \in Callers : GetActiveOperations(g)
    \/ \E g \in Callers : CancelAll(g)
    \/ \E g \in Callers : WaitForCompletionSelect(g)
    \/ \E g \in Callers : WaitForCompletionCount(g)
    \/ \E g \in Callers : Deadline(g)

SpecDrain == Init /\ [][NextDrain]_vars

(* ------------------------------------------------------------------ *)
(* CleanupManager (utils, cleanup executor)                             *)
(* ------------------------------------------------------------------ *)
(* Every method holds cm.mu from its first to its last statement, so    *)
(* each call is one step.  A task releases the resource of its          *)
(* description; releasing a resource that is gone changes nothing, and  *)
(* a task that fails fails every time it is run.                        *)

\* number of calls of the CleanupManager in one run
MaxCleanupCalls == 4

\* number of tasks in the list
MaxTasks == 3

\* the tasks callers register: Fn releases the resource or fails
Tasks == [Description : Resources, Priority : {1, 2}, fails : BOOLEAN]

\* fmt.Errorf("cleanup failed with %d errors: %v", ...), line 61
ErrCleanupFailed == "cleanup failed with errors"

\* the permutations of a sequence
Perms(seq) ==
    LET n == Len(seq)
        inj == {h \in [1..n -> 1..n] : \A i, j \in 1..n : i # j => h[i] # h[j]}
    IN  {[i \in 1..n |-> seq[f[i]]] : f \in inj}

\* faulty variant: the lowest priority first
Less_Lowest(a, b) == a.Priority < b.Priority

\* the less function handed to sort.Slice, lines 40-42
Less(a, b) == a.Priority > b.Priority

\* sort.Slice, which is not stable: any order of the elements in which no
\* element is less than one before it
SortSlice(seq) ==
    {p \in Perms(seq) : \A i, j \in 1..Len(p) : i < j => ~Less(p[j], p[i])}

\* task.Fn(): the error it returns and the resources left
FnErr(t) == IF t.fails THEN "err" ELSE NoErr
FnHeld(t, h) == IF t.fails THEN h ELSE h \ {t.Description}

\* faulty variant: the loop ends at the first task that fails
LastRun_StopOnError(list) ==
    IF \E i \in 1..Len(list) : list[i].fails
    THEN CHOOSE i \in 1..Len(list) :
            list[i].fails /\ \A j \in 1..(i - 1) : ~list[j].fails
    ELSE Len(list)

\* the loops of ExecuteAll and ForceCleanup go over the whole list
LastRun(list) == Len(list)

\* the runs of one loop over the list: the task and what its Fn returned
RunsOfLoop(list) ==
    [i \in 1..LastRun(list) |-> [task |-> list[i], err |-> FnErr(list[i])]]

\* the resources left after the tasks list[1..n] have run on h
RECURSIVE HeldAfter(_, _, _)
HeldAfter(list, n, h) ==
    IF n = 0 THEN h ELSE FnHeld(list[n], HeldAfter(list, n - 1, h))

\* faulty variant: the list is emptied by the call that ran it
TasksAfterRun_Cleared(list) == << >>

\* ExecuteAll and ForceCleanup leave cm.tasks as it is
TasksAfterRun(list) == list

\* the last call ran the tasks
RanTasks == cmRet.method \in {"executeAll", "forceCleanup"}

\* what a call of method m that returned err and made the runs ran leaves
CmReturn(m, err, ran) ==
    cmRet' = [method |-> m, err |-> err, ran |-> ran,
              again |-> RanTasks /\ m \in {"executeAll", "forceCleanup"},
              tasksBefore |-> tasks, tasksAfter |-> tasks',
              heldBefore |-> held, heldAfter |-> held', count |-> Len(tasks)]

\* a caller calls a method of the CleanupManager
CmCall ==
    /\ ncm < MaxCleanupCalls
    /\ ncm' = ncm + 1
    /\ UNCHANGED <<orchVars, trackerVars, signalVars>>

\* Register, lines 33-43: append, then sort by priority
Register(t) ==
    /\ CmCall
    /\ Len(tasks) < MaxTasks
    /\ tasks' \in SortSlice(Append(tasks, t))
    /\ UNCHANGED held
    /\ CmReturn("register", NoErr, << >>)

\* ExecuteAll, lines 46-65, without its caller: every task is run, the
\* errors are collected
ExecuteAllBody ==
    /\ tasks' = TasksAfterRun(tasks)
    /\ held' = HeldAfter(tasks, LastRun(tasks), held)
    /\ LET ran == RunsOfLoop(tasks)
       IN  CmReturn("executeAll",
                    IF \E i \in 1..Len(ran) : ran[i].err # NoErr
                    THEN ErrCleanupFailed ELSE NoErr,
                    ran)

ExecuteAll ==
    /\ CmCall
    /\ ExecuteAllBody

\* ForceCleanup, lines 68-76, without its caller: every task is run, the
\* errors are dropped
ForceCleanupBody ==
    /\ tasks' = TasksAfterRun(tasks)
    /\ held' = HeldAfter(tasks, LastRun(tasks), held)
    /\ CmReturn("forceCleanup", NoErr, RunsOfLoop(tasks))

CmForceCleanup ==
    /\ CmCall
    /\ ForceCleanupBody

\* Clear, lines 79-84
Clear ==
    /\ CmCall
    /\ tasks' = << >>
    /\ UNCHANGED held
    /\ CmReturn("clear", NoErr, << >>)

\* Count, lines 87-92
Count ==
    /\ CmCall
    /\ UNCHANGED <<tasks, held>>
    /\ CmReturn("count", NoErr, << >>)

NextCleanup ==
    \/ \E t \in Tasks : Register(t)
    \/ ExecuteAll
    \/ CmForceCleanup
    \/ Clear
    \/ Count

SpecCleanup == Init /\ [][NextCleanup]_vars

(* ------------------------------------------------------------------ *)
(* SignalHandler (utils) and the create wizard of the terminal UI       *)
(* ------------------------------------------------------------------ *)
(* handleSignals is one goroutine: it takes a signal from the channel,  *)
(* handles it to the end and only then takes the next one.  Its calls   *)
(* of the tracker are made as goroutine SignalGoroutine.                *)

\* number of signals sent to the process in one run
MaxSignals == 2

\* number of environments the wizard creates in one run
MaxCreations == 1

\* signal.Notify, lines 302-307
Signals == {"SIGINT", "SIGTERM", "SIGQUIT", "SIGHUP"}

\* make(chan os.Signal, 1)
ChanCap == 1

\* where the orchestrator is now
Here == [nops |-> nops, op |-> op, pc |-> pc, ctxDone |-> ctxDone]

\* the wizard's command: CreateEnvironment with ctx := context.Background(),
\* a ctx nothing can cancel; no Operation is started for the call
startCreation(o) ==
    /\ nops < MaxCreations
    /\ CreateStart(o)

\* the runtime delivers a signal: a send that does not block, the signal is
\* dropped when the channel is full
Notify(sig) ==
    /\ nsigs < MaxSignals
    /\ nsigs' = nsigs + 1
    /\ quitAtWait' = (quitAtWait \/ (sig = "SIGQUIT" /\ shPc = "wait" /\ Len(sigCh) < ChanCap))
    /\ sigCh' = IF Len(sigCh) < ChanCap THEN Append(sigCh, sig) ELSE sigCh
    /\ UNCHANGED <<shutdown, shPc, shLog, termAt, exitAt>>
    /\ UNCHANGED <<orchVars, cmVars, trackerVars>>

\* the handler goroutine calls method m of the tracker and goes for om.mu
HandlerCall(m) ==
    /\ tcall' = [tcall EXCEPT ![SignalGoroutine] = [NoCall EXCEPT !.method = m]]
    /\ tpc' = [tpc EXCEPT ![SignalGoroutine] = CallEntry(m)]
    /\ UNCHANGED <<operations, opObj, idCounter, omMu, cancelled, forced, cleanupLog,
                   issued, tret, tcalls>>

\* the handler goroutine goes back to the range over the channel
HandlerReturn(log) ==
    /\ shLog' = log
    /\ shPc' = "recv"
    /\ UNCHANGED <<shutdown, termAt, exitAt, trackerVars>>

\* gracefulShutdown, lines 382-393: return if shutdown is set, else set it,
\* make the ctx with the 30 s timeout and call CancelAll
gracefulShutdown(log) ==
    IF shutdown
    THEN HandlerReturn(log)
    ELSE /\ shutdown' = TRUE
         /\ termAt' = Here
         /\ shLog' = Append(log, "CancelAll")
         /\ shPc' = "cancelAll"
         /\ HandlerCall("cancelAll")
         /\ UNCHANGED exitAt

\* faulty variant: forceShutdown goes from ForceCancel to Quit
ForcedNext_Quit == "quit"

\* forceShutdown, line 415: ForceCleanup follows ForceCancel
ForcedNext == "forceCleanup"

\* forceShutdown, lines 409-414: set shutdown, call ForceCancel
forceShutdown(log) ==
    /\ shutdown' = TRUE
    /\ shLog' = Append(log, "ForceCancel")
    /\ shPc' = ForcedNext
    /\ HandlerCall("forceCancel")
    /\ UNCHANGED <<termAt, exitAt>>

\* faulty variant: handleSignals dispatches whatever the flag says
Skipped_Never(flag) == FALSE

\* if sh.shutdown { ...; continue }, lines 321-325
Skipped(flag) == flag

\* handleSignals, lines 319-339: the next signal is taken from the channel;
\* it is skipped when shutdown is set, else dispatched on its kind
handleSignals ==
    /\ shPc = "recv"
    /\ sigCh # << >>
    /\ sigCh' = Tail(sigCh)
    /\ UNCHANGED <<orchVars, cmVars, nsigs, quitAtWait>>
    /\ LET sig == Head(sigCh) IN
       IF Skipped(shutdown)
       THEN HandlerReturn(shLog)
       ELSE CASE sig = "SIGINT" ->
                   /\ shLog' = Append(shLog, sig)
                   /\ shPc' = "sigint"
                   /\ HandlerCall("getActive")
                   /\ UNCHANGED <<shutdown, termAt, exitAt>>
              [] sig = "SIGTERM" -> gracefulShutdown(Append(shLog, sig))
              [] sig = "SIGQUIT" -> forceShutdown(Append(shLog, sig))
              [] OTHER -> HandlerReturn(Append(shLog, sig))

\* faulty variant: the handler shuts down whatever is active
NoneActive_Always(ops) == TRUE

\* len(activeOps) == 0, line 345
NoneActive(ops) == ops = {}

\* handleSIGINT, lines 342-362, once GetActiveOperations has returned:
\* gracefulShutdown if no Operation is active, else the dialog is sent
handleSIGINT ==
    /\ shPc = "sigint"
    /\ tpc[SignalGoroutine] = "idle"
    /\ UNCHANGED <<orchVars, cmVars, sigCh, nsigs, quitAtWait>>
    /\ IF NoneActive(tret[SignalGoroutine].ops)
       THEN gracefulShutdown(shLog)
       ELSE HandlerReturn(Append(shLog, "Send"))

\* gracefulShutdown, lines 398-399, once CancelAll has returned:
\* WaitForCompletion is called with the ctx of the 30 s timeout
gracefulWait ==
    /\ shPc = "cancelAll"
    /\ tpc[SignalGoroutine] = "idle"
    /\ shPc' = "wait"
    /\ HandlerCall("wait")
    /\ UNCHANGED <<orchVars, cmVars, sigCh, nsigs, quitAtWait, shutdown, shLog, termAt, exitAt>>

\* faulty variant: ForceCleanup is called whatever the wait returned
AfterWait_Always(err) == "forceCleanup"

\* if err := ...WaitForCompletion(ctx); err != nil, line 399
AfterWait(err) == IF err = NoErr THEN "quit" ELSE "forceCleanup"

\* gracefulShutdown, lines 399-402, once WaitForCompletion has returned:
\* ForceCleanup is called if it returned an error
gracefulWaited ==
    /\ shPc = "wait"
    /\ tpc[SignalGoroutine] = "idle"
    /\ shLog' = Append(shLog, IF tret[SignalGoroutine].err = NoErr
                              THEN "WaitOk" ELSE ErrDeadline)
    /\ shPc' = AfterWait(tret[SignalGoroutine].err)
    /\ UNCHANGED <<orchVars, cmVars, trackerVars, sigCh, nsigs, quitAtWait, shutdown,
                   termAt, exitAt>>

\* sh.cleanup.ForceCleanup(), lines 401 and 415
ForceCleanup ==
    /\ shPc = "forceCleanup"
    /\ tpc[SignalGoroutine] = "idle"
    /\ shLog' = Append(shLog, "ForceCleanup")
    /\ shPc' = "quit"
    /\ ForceCleanupBody
    /\ UNCHANGED <<orchVars, ncm, trackerVars, sigCh, nsigs, quitAtWait, shutdown, termAt, exitAt>>

\* sh.program.Quit(), lines 405 and 416: the exit of the program is requested
Quit ==
    /\ shPc = "quit"
    /\ shLog' = Append(shLog, "Quit")
    /\ exitAt' = Here
    /\ shPc' = "recv"
    /\ UNCHANGED <<orchVars, cmVars, trackerVars, sigCh, nsigs, quitAtWait, shutdown, termAt>>

\* the terminal UI: the wizard creates environments, signals arrive; the
\* map of the tracker stays empty, so that WaitForCompletion returns at its
\* first tick, long before the deadline
NextSignal ==
    \/ \E o \in Options : startCreation(o)
    \/ CreateStepRemoteBranch
    \/ CreateStepLocalBranch
    \/ CreateStepWorktree
    \/ CreateStepContainerfile
    \/ CreateStepBuild
    \/ CreateStepVolume
    \/ CreateStepRun
    \/ CreateStepPersist
    \/ CreateDeferredCleanup
    \/ \E sig \in Signals : Notify(sig)
    \/ handleSignals
    \/ handleSIGINT
    \/ GetActiveOperations(SignalGoroutine)
    \/ CancelAll(SignalGoroutine)
    \/ ForceCancel(SignalGoroutine)
    \/ gracefulWait
    \/ WaitForCompletionSelect(SignalGoroutine)
    \/ gracefulWaited
    \/ ForceCleanup
    \/ Quit

SpecSignal == Init /\ [][NextSignal]_vars

(* ------------------------------------------------------------------ *)
(* Properties                                                           *)
(* ------------------------------------------------------------------ *)

\* the errors with which a step 1..7 of CreateEnvironment fails
StepErrors ==
    {ErrFetch, ErrCheckRemote, ErrNoRemote, ErrCheckLocal, ErrCreateBranch,
     ErrWorktree, ErrContainerfile, ErrBuild, ErrVolume, ErrRun, ErrAdd}

CreateReturned == op = "create" /\ pc = "returned"

\* a call whose result lets CreateEnvironment go on
WentOn(c) ==
    \/ c.res = "ok"
    \/ c.res = "yes"
    \/ c = Call("BranchExists", "no")

\* CreateEnvironment has returned because the last call it issued failed
CreateFailed ==
    /\ CreateReturned
    /\ calls # << >>
    /\ ~WentOn(calls[Len(calls)])

IsPrefix(a, b) == Len(a) <= Len(b) /\ a = SubSeq(b, 1, Len(a))

\* C1 (as claimed): after a CreateEnvironment call that failed at one of its
\* steps 1..7, whatever the compensation calls did, the derived name is in
\* neither the store's State nor the persisted document.
C1_AtomicVisibility ==
    CreateFailed => ~HasName(state, envName) /\ ~HasName(disk, envName)

\* the compensation call(s) that undo a creation call
Compensator(c) ==
    CASE c = "CreateBranch" -> <<"DeleteBranch">>
      [] c = "CreateWorktree" -> <<"RemoveWorktree">>
      [] c = "Build" -> <<"RemoveImage">>
      [] c = "CreateVolume" -> <<"RemoveVolume">>
      [] c = "Run" -> <<"Stop", "Remove">>
      [] OTHER -> << >>

\* the compensators of the calls log[1..i] that succeeded, last one first
RECURSIVE ReverseCompensation(_, _)
ReverseCompensation(log, i) ==
    IF i = 0 THEN << >>
    ELSE (IF log[i].res = "ok" THEN Compensator(log[i].call) ELSE << >>)
         \o ReverseCompensation(log, i - 1)

\* the creation call c is in the log and succeeded
Completed(c) == \E i \in 1..Len(calls) : calls[i] = Call(c, "ok")

StepError(c) ==
    CASE c = Call("FetchRemote", "err") -> ErrFetch
      [] c = Call("RemoteBranchExists", "err") -> ErrCheckRemote
      [] c = Call("RemoteBranchExists", "no") -> ErrNoRemote
      [] c = Call("BranchExists", "err") -> ErrCheckLocal
      [] c = Call("CreateBranch", "err") -> ErrCreateBranch
      [] c = Call("CreateWorktree", "err") -> ErrWorktree
      [] c = Call("StatContainerfile", "err") -> ErrContainerfile
      [] c = Call("Build", "err") -> ErrBuild
      [] c = Call("CreateVolume", "err") -> ErrVolume
      [] c = Call("Run", "err") -> ErrRun
      [] c = Call("AddEnvironment", "err") -> ErrAdd
      [] OTHER -> NoErr

\* C3: the error CreateEnvironment returns after a failed step is that step's
\* error, whatever the compensation calls did; a failed compensation call is
\* a warning and nothing else.
C3_OriginalError ==
    CreateFailed =>
        /\ retErr = StepError(calls[Len(calls)])
        /\ retErr \in StepErrors
        /\ \A i \in 1..Len(compCalls) :
              compCalls[i].res = "err" <=> compCalls[i].call \in Range(warnings)

\* the image build failed and a compensation call failed too
C3_Witness ==
    /\ CreateFailed
    /\ retErr = ErrBuild
    /\ warnings # << >>

\* the order in which CreateEnvironment issues its calls, for a remote
\* branch, an existing local branch and a local branch it has to create
StepTail ==
    <<"CreateWorktree", "StatContainerfile", "Build", "CreateVolume", "Run",
      "AddEnvironment">>

NominalOrders ==
    { <<"FetchRemote", "RemoteBranchExists">> \o StepTail,
      <<"BranchExists">> \o StepTail,
      <<"BranchExists", "CreateBranch">> \o StepTail }

\* branch, worktree, image, volume and container of the record under construction
ResourcesExist ==
    /\ opts.IsRemoteBranch \/ opts.BranchName \in branches
    /\ \E w \in worktrees : w.path = env.WorktreePath
    /\ ImageTagOf(envName) \in images
    /\ env.VolumeName \in volumes
    /\ \E c \in containers : c.id = env.ContainerID /\ c.name = env.ContainerName

\* C4: CreateEnvironment issues its steps in the fixed order branch, worktree,
\* containerfile check, image build, volume, container run, persist; a step is
\* issued only if every earlier one succeeded, and the record is written to
\* the State only when branch, worktree, image, volume and container exist.
C4_StepOrder ==
    op = "create" =>
        /\ \E order \in NominalOrders : IsPrefix(CallNames(calls), order)
        /\ \A i \in 1..(Len(calls) - 1) : WentOn(calls[i])
        /\ "CreateBranch" \in Range(CallNames(calls))
              <=> Call("BranchExists", "no") \in Range(calls)
        /\ "AddEnvironment" \notin Range(CallNames(calls)) => state = pre
        /\ pc = "persist" => ResourcesExist
        /\ HasName(state, envName) /\ ~HasName(pre, envName)
              => "AddEnvironment" \in Range(CallNames(calls))
        /\ Completed("AddEnvironment") => ResourcesExist

\* a call that created its branch reached step 7 and wrote the record
C4_Witness ==
    /\ CreateReturned
    /\ CallNames(calls) = <<"BranchExists", "CreateBranch">> \o StepTail
    /\ Completed("AddEnvironment")

\* C5: when every step succeeds CreateEnvironment returns no error, issues no
\* compensation call, and the State is the State before the call followed by
\* one record for the derived name, with status "running" and the container
\* ID that Run returned.
C5_SuccessfulCreate ==
    (CreateReturned /\ retErr = NoErr) =>
        /\ compCalls = << >>
        /\ warnings = << >>
        /\ Len(state) = Len(pre) + 1
        /\ SubSeq(state, 1, Len(pre)) = pre
        /\ ~HasName(pre, envName)
        /\ state[Len(state)].Name = envName
        /\ state[Len(state)].Status = "running"
        /\ \E c \in containers :
              /\ c.id = state[Len(state)].ContainerID
              /\ c.name = ContainerNameOf(envName)
        /\ disk = state

\* a second environment is created next to an existing record
C5_Witness ==
    /\ CreateReturned
    /\ retErr = NoErr
    /\ Len(pre) = 1
    /\ Len(state) = 2

C7_UniqueNames ==
    \A i, j \in 1..Len(state) : i # j => state[i].Name # state[j].Name

DeleteReturned == op = "delete" /\ pc = "returned"

\* DeleteEnvironment found the record and went through CleanupEnvironment
DeleteRan == DeleteReturned /\ HasName(pre, envName)

\* the teardown steps of a record that has a container ID
TeardownSteps ==
    <<"Stop", "Remove", "RemoveImage", "RemoveVolume", "RemoveWorktree",
      "RemoveEnvironment">>

\* the teardown call c was issued and failed
TeardownFailed(c) == Call(c, "err") \in Range(calls)

\* C8: DeleteEnvironment on an existing record attempts every teardown step
\* whatever the earlier steps did; when volume removal fails and worktree
\* removal succeeds the worktree is gone, the record is no longer in the
\* State and the aggregate error has the volume failure.
C8_DeleteAttemptsAll ==
    DeleteRan =>
        /\ CallNames(calls) = TeardownSteps
        /\ ~HasName(state, envName)
        /\ ~TeardownFailed("RemoveEnvironment") => ~HasName(disk, envName)
        /\ (TeardownFailed("RemoveVolume") /\ ~TeardownFailed("RemoveWorktree")) =>
              /\ ~\E w \in worktrees :
                    w.path = GetEnvironment(pre, envName).WorktreePath
              /\ "RemoveVolume" \in Range(cleanupErrors)
              /\ retErr = ErrCleanup

\* volume removal failed, worktree removal succeeded
C8_Witness ==
    /\ DeleteRan
    /\ TeardownFailed("RemoveVolume")
    /\ Call("RemoveWorktree", "ok") \in Range(calls)

\* C9: DeleteEnvironment, OpenTerminal and ExecuteCommand for a name without
\* a record return not-found, issue no adapter call and leave the State and
\* the persisted document unchanged.
C9_NotFound ==
    (op \in {"delete", "terminal", "exec"} /\ ~HasName(pre, envName)) =>
        /\ pc = "returned"
        /\ retErr = ErrEnvNotFound
        /\ calls = << >>
        /\ cleanupErrors = << >>
        /\ state = pre
        /\ disk = preDisk

\* a delete for a name without a record, next to an existing record
C9_Witness ==
    /\ DeleteReturned
    /\ retErr = ErrEnvNotFound
    /\ pre # << >>

\* C10 (as claimed): the aggregate error of DeleteEnvironment has an entry
\* for a teardown step exactly when that step's call failed, and no error is
\* returned only if every step succeeded.
C10_ExactErrorList ==
    DeleteRan =>
        /\ \A c \in Range(TeardownSteps) :
              c \in Range(cleanupErrors) <=> TeardownFailed(c)
        /\ retErr = NoErr => \A c \in Range(TeardownSteps) : ~TeardownFailed(c)

\* C10 (amended): the aggregate error has an entry for container stop,
\* container remove, volume remove, worktree remove and state record remove
\* exactly when that call failed, in the order of the steps; a failed image
\* removal is never listed, and no error is returned exactly when every step
\* other than the image removal succeeded.
C10_ErrorListButImage ==
    DeleteRan =>
        /\ \A c \in Range(TeardownSteps) \ {"RemoveImage"} :
              c \in Range(cleanupErrors) <=> TeardownFailed(c)
        /\ "RemoveImage" \notin Range(cleanupErrors)
        /\ \A i, j \in 1..Len(cleanupErrors) :
              i < j => \E k, l \in 1..Len(TeardownSteps) :
                          /\ k < l
                          /\ TeardownSteps[k] = cleanupErrors[i]
                          /\ TeardownSteps[l] = cleanupErrors[j]
        /\ retErr = NoErr <=>
              \A c \in Range(TeardownSteps) \ {"RemoveImage"} : ~TeardownFailed(c)
        /\ retErr \in {NoErr, ErrCleanup}

\* only the image removal failed: no error is returned
C10_Witness ==
    /\ DeleteRan
    /\ TeardownFailed("RemoveImage")
    /\ retErr = NoErr

ListReturned == op = "list" /\ pc = "returned"

\* C11: ListEnvironments does not write the persisted document: after a
\* listing, whatever the status probes answered, the document on disk is the
\* one from before the call, and the only calls issued are status probes.
C11_ListKeepsDocument ==
    ListReturned =>
        /\ disk = preDisk
        /\ retErr = NoErr
        /\ \A i \in 1..Len(calls) : calls[i].call = "Status"
        /\ Len(state) = Len(pre)

\* a listing whose probe did not answer "running" for a record persisted as running
C11_Witness ==
    /\ ListReturned
    /\ disk # << >>
    /\ disk[1].Status = "running"
    /\ state[1].Status = "stopped"
    /\ calls # << >>

\* OpenTerminal or ExecuteCommand found the record and has returned
ExecReturned == op \in {"terminal", "exec"} /\ pc = "returned" /\ HasName(pre, envName)

ExecEntries == {"Exec", "ExecNonInteractive"}

\* C12: OpenTerminal and ExecuteCommand call Exec or ExecNonInteractive only
\* after the status probe of the record's container reported running; for a
\* record without a container ID, or a probe that reports not running, they
\* return a not-running error and call no exec entry point.
C12_ExecOnlyWhenRunning ==
    ExecReturned =>
        /\ (\E i \in 1..Len(calls) : calls[i].call \in ExecEntries)
              => /\ Len(calls) = 2
                 /\ calls[1] = Call("Status", "running")
                 /\ calls[2].call \in ExecEntries
                 /\ GetEnvironment(pre, envName).ContainerID # 0
        /\ op = "terminal" => \A i \in 1..Len(calls) : calls[i].call # "ExecNonInteractive"
        /\ GetEnvironment(pre, envName).ContainerID = 0
              => calls = << >> /\ retErr = ErrNoContainer
        /\ Call("Status", "stopped") \in Range(calls)
              => calls = <<Call("Status", "stopped")>> /\ retErr = ErrNotRunning
        /\ Call("Status", "err") \in Range(calls)
              => calls = <<Call("Status", "err")>> /\ retErr = ErrStatus
        /\ state = pre

\* the second call is a command for a record that has no container ID
C12_Witness ==
    /\ ExecReturned
    /\ op = "exec"
    /\ retErr = ErrNoContainer
    /\ nops = 2
    /\ Len(state) = 2

\* CreateEnvironment returned because the containerfile is missing
ContainerfileMissing == CreateFailed /\ retErr = ErrContainerfile

\* C13 (as claimed): a CreateEnvironment call that fails because the
\* containerfile is missing has touched no resource (no branch created, no
\* worktree created) and issues no rollback call.
C13_ContainerfileValidation ==
    ContainerfileMissing =>
        /\ ~Completed("CreateBranch")
        /\ ~Completed("CreateWorktree")
        /\ compCalls = << >>

\* C13 (amended): the containerfile is looked for inside the new worktree, so
\* a call that fails because it is missing has created the worktree, and the
\* branch when it did not exist; it has built no image, created no volume,
\* started no container and written no record, and its rollback removes the
\* worktree and then deletes the branch if the call created it.
C13_ContainerfileAfterWorktree ==
    ContainerfileMissing =>
        /\ Completed("CreateWorktree")
        /\ calls[Len(calls)] = Call("StatContainerfile", "err")
        /\ Range(CallNames(calls)) \cap {"Build", "CreateVolume", "Run", "AddEnvironment"} = {}
        /\ CallNames(compCalls) =
              <<"RemoveWorktree">>
                 \o (IF Completed("CreateBranch") THEN <<"DeleteBranch">> ELSE << >>)
        /\ Call("RemoveWorktree", "ok") \in Range(compCalls)
              => ~\E w \in worktrees : w.path = env.WorktreePath
        /\ Call("DeleteBranch", "ok") \in Range(compCalls)
              => opts.BranchName \notin branches
        /\ state = pre
        /\ disk = preDisk

\* the call created branch and worktree before it missed the containerfile
C13_Witness ==
    /\ ContainerfileMissing
    /\ CallNames(compCalls) = <<"RemoveWorktree", "DeleteBranch">>
    /\ worktrees = {}

\* C14: the rollback of a failed CreateEnvironment deletes the branch only if
\* this call created it; a local branch that was there before the call, and
\* the branch of a remote-branch call, is never deleted, whichever step fails.
C14_BranchDeletedOnlyIfCreated ==
    op = "create" =>
        /\ "DeleteBranch" \in Range(CallNames(compCalls))
              => /\ Completed("CreateBranch")
                 /\ opts.BranchName \notin preBranches
                 /\ ~opts.IsRemoteBranch
        /\ cleanup.branchCreated <=> Completed("CreateBranch")
        /\ preBranches \subseteq branches
        /\ branches \subseteq preBranches \cup {opts.BranchName}

\* a call for a branch that was there before fails after its worktree was
\* made; the rollback removes the worktree and leaves the branch
C14_Witness ==
    /\ CreateFailed
    /\ opts.BranchName \in preBranches
    /\ ~opts.IsRemoteBranch
    /\ Call("RemoveWorktree", "ok") \in Range(compCalls)
    /\ opts.BranchName \in branches

\* every resource whose flag is set has been released
FlaggedReleased ==
    /\ cleanup.containerStarted => ~\E c \in containers : c.id = env.ContainerID
    /\ cleanup.volumeCreated => env.VolumeName \notin volumes
    /\ cleanup.imageBuilt => cleanup.imageName \notin images
    /\ cleanup.worktreeCreated => ~\E w \in worktrees : w.path = env.WorktreePath
    /\ cleanup.branchCreated => opts.BranchName \notin branches

\* C15 (as claimed): when the ctx of a CreateEnvironment call in flight is
\* cancelled after some steps have completed, the call ends with an error and
\* its compensation releases every resource whose flag was set, by calls that
\* take effect as they would after a failure without cancellation.
C15_CancelledCompensation ==
    (CreateReturned /\ ctxDone /\ retErr # NoErr) => FlaggedReleased

\* the last call of goroutine g was of method m and has returned
Returned(g, m) == tpc[g] = "idle" /\ tcall[g].method = m

\* C17: under any interleaving of callers, StartOperation returns an
\* Operation whose identifier no other Operation ever had (identifiers grow
\* with every call), with an empty cleanup list and status "starting", and the
\* step that returns it has put exactly this Operation into the live set.
C17_UniqueIdentifiers ==
    /\ \A i, j \in 1..Len(issued) : i < j => issued[i] < issued[j]
    /\ \A g \in Callers :
          Returned(g, "start") =>
             /\ tret[g].err = NoErr
             /\ tret[g].id \in Range(issued)
             /\ tret[g].obj.Cleanup = << >>
             /\ tret[g].obj.Status = "starting"
             /\ tret[g].new = {tret[g].id}
             /\ tret[g].gone = {}
    /\ \A g, h \in Callers :
          (g # h /\ Returned(g, "start") /\ Returned(h, "start"))
             => tret[g].id # tret[h].id

\* two goroutines called StartOperation at the same time
C17_Witness ==
    /\ Returned(1, "start")
    /\ Returned(2, "start")
    /\ tret[1].id = 2
    /\ tret[2].id = 1
    /\ tcalls = 2

\* the cleanup functions run for Operation id, in the order of their runs
RECURSIVE RunsOf(_, _, _)
RunsOf(log, id, i) ==
    IF i > Len(log) THEN << >>
    ELSE (IF log[i].op = id THEN <<log[i].fn>> ELSE << >>) \o RunsOf(log, id, i + 1)

\* C18: CompleteOperation and FailOperation on a live identifier remove that
\* Operation and no other from the live set and return no error;
\* FailOperation first runs the cleanup functions attached to the Operation,
\* each once and in the order of registration, also after one of them failed.
C18_FailRunsCleanups ==
    \A g \in Callers :
       /\ (Returned(g, "complete") \/ Returned(g, "fail")) =>
             /\ tcall[g].found <=> tret[g].err = NoErr
             /\ tcall[g].found =>
                   /\ tret[g].gone = {tcall[g].id}
                   /\ tret[g].new = {}
       /\ (Returned(g, "fail") /\ tcall[g].found) =>
             /\ RunsOf(cleanupLog, tcall[g].id, 1) = tcall[g].snap
             /\ IsPrefix(tcall[g].attached, tcall[g].snap)
             /\ IsPrefix(tcall[g].snap, opObj[tcall[g].id].Cleanup)
       /\ tpc[g] = "cleanup" =>
             /\ tcall[g].id \in operations
             /\ tcall[g].i <= Len(tcall[g].snap) + 1
             /\ RunsOf(cleanupLog, tcall[g].id, 1)
                   = SubSeq(tcall[g].snap, 1, tcall[g].i - 1)

\* FailOperation ran two cleanup functions in the order of their
\* registration although the first one failed
C18_Witness ==
    /\ Returned(1, "fail")
    /\ tret[1].err = NoErr
    /\ cleanupLog = <<[op |-> 1, fn |-> "c2", res |-> "err"],
                      [op |-> 1, fn |-> "c1", res |-> "ok"]>>

\* the five methods that take an identifier
ByIdentifier == {"complete", "fail", "update", "register", "get"}

\* C19: CompleteOperation, FailOperation, UpdateProgress, RegisterCleanup and
\* GetOperation for an identifier that is not in the live set return
\* not-found, run no cleanup function and leave the live set and every
\* Operation as they were.
C19_UnknownIdentifier ==
    \A g \in Callers :
       /\ (tcall[g].method \in ByIdentifier /\ tpc[g] \in {"cleanup", "oplock"})
             => tcall[g].found
       /\ (tpc[g] = "idle" /\ tcall[g].method \in ByIdentifier) =>
             /\ tret[g].err = ErrOpNotFound <=> ~tcall[g].found
             /\ ~tcall[g].found =>
                   /\ tret[g].same
                   /\ tret[g].gone = {}
                   /\ tret[g].new = {}

\* FailOperation for an Operation that was completed before; its cleanup
\* function is registered and never runs
C19_Witness ==
    /\ Returned(1, "fail")
    /\ tret[1].err = ErrOpNotFound
    /\ tcall[1].id \in DOMAIN opObj
    /\ opObj[tcall[1].id].Status = "completed"
    /\ opObj[tcall[1].id].Cleanup # << >>
    /\ cleanupLog = << >>

\* goroutine g has called CancelAll and waits for om.mu
CancelAllWaits(g) == tpc[g] = "lock" /\ tcall[g].method = "cancelAll"

\* FailOperation of goroutine h holds om.mu with cleanup functions still to run
CleanupsPending(h) ==
    /\ tpc[h] = "cleanup"
    /\ omMu = h
    /\ tcall[h].i <= Len(tcall[h].snap)

\* C20 (as claimed): CancelAll invokes Cancel of every live Operation, takes
\* none out of the live set, runs no cleanup function, and does not block: a
\* CancelAll that has been called never waits for another tracker call in
\* progress.
C20_CancelAllNonBlocking ==
    \A g \in Callers :
       /\ Returned(g, "cancelAll") =>
             /\ tret[g].gone = {}
             /\ tret[g].new = {}
       /\ CancelAllWaits(g) => ~\E h \in Callers : CleanupsPending(h)


\* SIGTERM was handled while a create call was between two of its steps
TermDuringCreate ==
    /\ "SIGTERM" \in Range(shLog)
    /\ termAt.op = "create"
    /\ termAt.pc \in CreateSteps

\* C16: when the exit of the program is requested after a SIGTERM that was
\* handled while a create call was in flight, that call is not left running
\* as if nothing had happened: it has returned or its ctx has been cancelled
C16_TermCancelsCreate ==
    (TermDuringCreate /\ exitAt.nops = termAt.nops /\ exitAt.pc \in CreateSteps)
        => exitAt.ctxDone


\* C21: ForceCancel invokes Cancel of every Operation in the live set and
\* leaves the live set empty when it returns; no cleanup function of an
\* Operation it removed is ever run, and a CompleteOperation or FailOperation
\* for such an identifier reports not-found and changes nothing.
C21_ForceCancelClears ==
    /\ \A id \in forced :
          /\ id \notin operations
          /\ id \in cancelled
          /\ RunsOf(cleanupLog, id, 1) = << >>
    /\ \A g \in Callers :
          /\ Returned(g, "forceCancel") =>
                /\ tret[g].live = {}
                /\ tret[g].new = {}
                /\ tret[g].gone \subseteq forced
          /\ (tcall[g].method \in {"complete", "fail"} /\ tcall[g].id \in forced) =>
                /\ tpc[g] # "cleanup"
                /\ Returned(g, tcall[g].method) =>
                      /\ tret[g].err = ErrOpNotFound
                      /\ tret[g].same

\* ForceCancel removed an Operation that had a cleanup function attached,
\* and a FailOperation for it has returned since
C21_Witness ==
    /\ Returned(1, "forceCancel")
    /\ tret[1].gone = {1}
    /\ opObj[1].Cleanup = <<"c1">>
    /\ Returned(2, "fail")
    /\ tcall[2].id = 1
    /\ tret[2].err = ErrOpNotFound
    /\ cleanupLog = << >>


\* a WaitForCompletion call of goroutine g has returned after a CancelAll
WaitReturned(g) == Returned(g, "wait") /\ cancelled # {}

\* C22 as stated: after a CancelAll, WaitForCompletion returns success only with the live set
\* empty, always returns success when the live set was empty at the
\* deadline, and returns the timeout condition when it was not.
C22_DrainExact ==
    \A g \in Callers :
       WaitReturned(g) =>
          /\ tret[g].err = NoErr => tret[g].live = {}
          /\ tcall[g].deadline = "drained" => tret[g].err = NoErr
          /\ tcall[g].deadline = "live" => tret[g].err = ErrDeadline

\* C22: WaitForCompletion returns success only at a tick that finds the live
\* set empty, never while an Operation is live, and returns the timeout
\* condition only after the deadline has passed.
C22_DrainAtPoll ==
    \A g \in Callers :
       Returned(g, "wait") =>
          /\ tret[g].err \in {NoErr, ErrDeadline}
          /\ tret[g].err = NoErr => tret[g].live = {}
          /\ tret[g].err = ErrDeadline => tcall[g].deadline # "pending"
          /\ tret[g].same

\* after a CancelAll a tick found an Operation in the map, the Operation was
\* ended and a later tick made WaitForCompletion return nil
C22_Witness ==
    /\ WaitReturned(1)
    /\ tret[1].err = NoErr
    /\ tcall[1].polls >= 1
    /\ cancelled = {1}
    /\ opObj[1].Status = "completed"


\* C23: the progress of an Operation in the live set never decreases,
\* whatever UpdateProgress and CompleteOperation calls are made on it.
C23_ProgressMonotonic ==
    [][\A id \in operations \cap operations' :
          opObj'[id].Progress >= opObj[id].Progress]_vars


\* C24: under any interleaving of the public methods, every read and write
\* of the live-operations map and of an Operation's cleanup list, progress
\* and status is made under the lock that guards it: no two goroutines are
\* about to access the same one, one of them writing, without a common lock.
C24_GuardedAccess ==
    \A g, h \in Callers :
       g # h => \A a \in Accesses(g), b \in Accesses(h) : ~Race(a, b)


\* goroutine g is inside a method of the store
InStore(g) == spc[g] \in {"scan", "read", "write", "apply", "marshal", "writefile"}

\* the call c made on a store that holds envs, with dsk on disk
SerialCall(c, envs, dsk) ==
    CASE c.method = "add" -> AddEnvironment(envs, dsk, c.env, c.written)
      [] c.method = "remove" -> RemoveEnvironment(envs, dsk, c.name, c.written)
      [] OTHER -> UpdateEnvironment(envs, dsk, c.name, c.u, c.written)

\* the store is as if the call of g had run to its end before the call of h began
SerialOrder(g, h) ==
    LET first == SerialCall(scall[g], pre, preDisk)
        second == SerialCall(scall[h], first.state, first.disk)
    IN  /\ scall[g].err = first.err
        /\ scall[h].err = second.err
        /\ state = second.state
        /\ disk = second.disk

\* C25: AddEnvironment, RemoveEnvironment and UpdateEnvironment are critical
\* sections under one guard: two goroutines are never inside them at the
\* same time, no call panics, and when two calls have returned the store and
\* the document are what one of the two serial orders gives.
C25_StoreSerialized ==
    /\ ~(InStore(1) /\ InStore(2))
    /\ \A g \in Callers : spc[g] # "panicked"
    /\ (spc[1] = "returned" /\ spc[2] = "returned")
          => SerialOrder(1, 2) \/ SerialOrder(2, 1)


\* number of calls the owner of the Operations makes in one run
MaxOwnerCalls == 2

\* the goroutine that owns the Operations while the handler runs
Owner == 1

\* the calls of the owner: it starts Operations and ends them
OwnerCalls ==
    [method : {"start"}, id : {0}, fn : {""}, progress : {0}, status : {""}]
      \cup [method : {"complete", "fail"},
            id : OpIDs, fn : {""}, progress : {0}, status : {""}]

\* the owner calls a method of the tracker
OwnerCall(c) ==
    /\ tcalls < MaxOwnerCalls
    /\ TrackerCall(Owner, c)

\* the handler next to the owner of the Operations: signals arrive while
\* Operations are started and ended, and only the handler cancels
NextHandler ==
    \/ \E c \in OwnerCalls : OwnerCall(c)
    \/ StartOperation(Owner)
    \/ CompleteOperation(Owner)
    \/ FailOperationLookup(Owner)
    \/ FailOperationFinish(Owner)
    \/ \E sig \in Signals : Notify(sig)
    \/ handleSignals
    \/ handleSIGINT
    \/ GetActiveOperations(SignalGoroutine)
    \/ CancelAll(SignalGoroutine)
    \/ ForceCancel(SignalGoroutine)
    \/ gracefulWait
    \/ WaitForCompletionSelect(SignalGoroutine)
    \/ WaitForCompletionCount(SignalGoroutine)
    \/ Deadline(SignalGoroutine)
    \/ gracefulWaited
    \/ ForceCleanup
    \/ Quit

SpecHandler == Init /\ [][NextHandler]_vars


(* ------------------------------------------------------------------ *)
(* Terminal UI: the list views and the confirmation dialog              *)
(* ------------------------------------------------------------------ *)
(* Update is called with one message at a time.  A command that Update  *)
(* returns is run by the runtime; the message it produces comes back    *)
(* through the inbox, keys may be pressed before it does.               *)

\* number of keys pressed in one run
MaxKeys == 4

\* the rows of the table, by the name in their first column
Rows == <<"a", "b">>

Keys == {"d", "enter", "y", "n", "esc", "q", "left", "right", "tab", "up", "down"}

\* what no step of the terminal UI touches
uiRest == <<state, disk, branches, worktrees, images, volumes, containers, op, pc,
            opts, envName, env, cleanup, calls, compCalls, warnings, cleanupErrors,
            retErr, pre, preDisk, nops, preBranches, ctxDone, spc, scall,
            trackerVars, signalVars, cmVars, hidden, persistedHere, lockVars>>

\* tea.NewProgram(model).Run() with the MainModel (part_000) or with the
\* StandaloneListModel (commands/list.go); the table has its rows, or none
RunProgram(kind, row) ==
    /\ uiKind = "none"
    /\ uiKind' = kind
    /\ cursor' = row
    /\ UNCHANGED <<currentView, showConfirm, confirmModel, selectedEnvName, inbox,
                   deleteCalls, dialogs, confirms, nkeys>>
    /\ UNCHANGED uiRest

\* table.Update: the cursor moves over the rows
TableUpdate(k, cur) ==
    IF cur = "" THEN cur
    ELSE CASE k = "down" -> Rows[Len(Rows)]
           [] k = "up" -> Rows[1]
           [] OTHER -> cur

\* ConfirmationModel.Update, config.go lines 713-720: the selected button, 0 is Cancel
ConfirmSelected(sel, k) ==
    CASE k = "left" -> 0
      [] k = "right" -> 1
      [] k = "tab" -> (sel + 1) % 2
      [] OTHER -> sel

\* ConfirmationModel.Update, config.go lines 721-747: the ConfirmationResult it sends
ConfirmResult(sel, k) ==
    CASE k = "enter" -> IF sel = 1 THEN "yes" ELSE "no"
      [] k = "esc" -> "no"
      [] k = "y" -> "yes"
      [] k = "n" -> "no"
      [] OTHER -> "none"

\* NewDeleteConfirmationModel, config.go line 695: selected: 0, default to cancel
FirstSelected == 0

\* EnvironmentListModel.Update on a key, list.go lines 99-120 and 138: 'd'
\* on a selected row returns the command that calls DeleteEnvironment
EnvironmentListUpdate(k) ==
    IF k = "d" /\ cursor # ""
    THEN /\ deleteCalls' = Append(deleteCalls, cursor)
         /\ UNCHANGED cursor
    ELSE /\ cursor' = TableUpdate(k, cursor)
         /\ UNCHANGED deleteCalls

\* a key is pressed
KeyPressed ==
    /\ nkeys < MaxKeys
    /\ nkeys' = nkeys + 1
    /\ UNCHANGED uiRest

\* MainModel.Update on a key, main.go lines 131-170: 'q' quits or goes back
\* to the main view, 'n' opens the wizard, the other keys go to the model of
\* the current view
MainKey(k) ==
    /\ uiKind = "main"
    /\ KeyPressed
    /\ UNCHANGED <<showConfirm, confirmModel, selectedEnvName, inbox, dialogs, confirms>>
    /\ CASE k = "q" ->
              /\ uiKind' = IF currentView = "MainView" THEN "quit" ELSE uiKind
              /\ currentView' = "MainView"
              /\ UNCHANGED <<cursor, deleteCalls>>
         [] k = "n" /\ currentView = "MainView" ->
              /\ currentView' = "CreateView"
              /\ UNCHANGED <<uiKind, cursor, deleteCalls>>
         [] OTHER ->
              /\ UNCHANGED <<uiKind, currentView>>
              /\ IF currentView = "MainView"
                 THEN EnvironmentListUpdate(k)
                 ELSE UNCHANGED <<cursor, deleteCalls>>

\* handleDeleteAction, list_standalone.go lines 247-279: the dialog for the
\* selected row is shown, unless no row is selected or the store does not
\* have the environment
handleDeleteAction ==
    /\ UNCHANGED <<uiKind, cursor, inbox, deleteCalls, confirms>>
    /\ \E found \in BOOLEAN :
          IF cursor = "" \/ ~found
          THEN UNCHANGED <<showConfirm, confirmModel, selectedEnvName, dialogs>>
          ELSE /\ confirmModel' = [selected |-> FirstSelected]
               /\ selectedEnvName' = cursor
               /\ showConfirm' = TRUE
               /\ dialogs' = Append(dialogs, [name |-> cursor,
                                              selected |-> FirstSelected])

\* StandaloneListModel.Update on a key, list_standalone.go lines 66-110
\* and 154-161
ListKey(k) ==
    /\ uiKind = "list"
    /\ KeyPressed
    /\ UNCHANGED currentView
    /\ CASE k \in {"q", "esc"} ->
              /\ UNCHANGED <<cursor, inbox, deleteCalls, dialogs, confirms>>
              /\ IF showConfirm
                 THEN /\ showConfirm' = FALSE
                      /\ confirmModel' = NoModel
                      /\ selectedEnvName' = ""
                      /\ UNCHANGED uiKind
                 ELSE /\ uiKind' = "quit"
                      /\ UNCHANGED <<showConfirm, confirmModel, selectedEnvName>>
         [] k = "enter" /\ ~showConfirm ->
              UNCHANGED <<uiKind, cursor, showConfirm, confirmModel, selectedEnvName,
                          inbox, deleteCalls, dialogs, confirms>>
         [] k = "d" /\ ~showConfirm -> handleDeleteAction
         [] OTHER ->
              /\ UNCHANGED <<uiKind, showConfirm, selectedEnvName, dialogs>>
              /\ IF showConfirm /\ confirmModel # NoModel
                 THEN LET res == ConfirmResult(confirmModel.selected, k) IN
                      /\ confirmModel' =
                            [selected |-> ConfirmSelected(confirmModel.selected, k)]
                      /\ inbox' = IF res = "none" THEN inbox
                                  ELSE Append(inbox, [Confirmed |-> res = "yes"])
                      /\ confirms' = IF res = "yes"
                                     THEN Append(confirms, selectedEnvName)
                                     ELSE confirms
                      /\ UNCHANGED <<cursor, deleteCalls>>
                 ELSE /\ EnvironmentListUpdate(k)
                      /\ UNCHANGED <<confirmModel, inbox, confirms>>

\* StandaloneListModel.Update on a ConfirmationResult, lines 112-120, with
\* executeDelete, lines 282-297
ConfirmationResult ==
    /\ uiKind = "list"
    /\ inbox # << >>
    /\ inbox' = Tail(inbox)
    /\ showConfirm' = FALSE
    /\ confirmModel' = NoModel
    /\ selectedEnvName' = ""
    /\ deleteCalls' = IF Head(inbox).Confirmed /\ selectedEnvName # ""
                      THEN Append(deleteCalls, selectedEnvName)
                      ELSE deleteCalls
    /\ UNCHANGED <<uiKind, currentView, cursor, dialogs, confirms, nkeys>>
    /\ UNCHANGED uiRest

NextTui ==
    \/ \E kind \in {"main", "list"}, row \in Range(Rows) \cup {""} : RunProgram(kind, row)
    \/ \E k \in Keys : MainKey(k)
    \/ \E k \in Keys : ListKey(k)
    \/ ConfirmationResult

SpecTui == Init /\ [][NextTui]_vars

(* ------------------------------------------------------------------ *)
(* CleanupManager: order, completeness and repetition                   *)
(* ------------------------------------------------------------------ *)

\* the priorities of a list do not go up
Descending(list) ==
    \A i, j \in 1..Len(list) : i < j => list[i].Priority >= list[j].Priority

\* C26: after any sequence of Register calls the task list is ordered by
\* priority, highest first, and ExecuteAll and ForceCleanup run the tasks
\* in that order: the priorities of the tasks a call ran, in the order it
\* ran them, do not go up.
C26_PriorityOrder ==
    /\ Descending(tasks)
    /\ RanTasks =>
          /\ Descending([i \in 1..Len(cmRet.ran) |-> cmRet.ran[i].task])
          /\ \A i \in 1..Len(cmRet.ran) : cmRet.ran[i].task = cmRet.tasksBefore[i]

\* three registered tasks of both priorities have been run
C26_Witness ==
    /\ RanTasks
    /\ Len(cmRet.ran) = 3
    /\ cmRet.ran[1].task.Priority = 2
    /\ cmRet.ran[3].task.Priority = 1

\* how often task t is in the list
Occurrences(list, t) == Cardinality({i \in 1..Len(list) : list[i] = t})

\* C27: ExecuteAll runs every registered task exactly once, also the tasks
\* after one that failed, and returns the aggregate error exactly when a
\* task failed; ForceCleanup runs every registered task exactly once as
\* well and returns no error.
C27_RunsEveryTask ==
    RanTasks =>
        /\ Len(cmRet.ran) = Len(cmRet.tasksBefore)
        /\ \A t \in Tasks :
              Occurrences([i \in 1..Len(cmRet.ran) |-> cmRet.ran[i].task], t)
                 = Occurrences(cmRet.tasksBefore, t)
        /\ \A i \in 1..Len(cmRet.tasksBefore) :
              ~cmRet.tasksBefore[i].fails =>
                  cmRet.tasksBefore[i].Description \notin cmRet.heldAfter
        /\ cmRet.method = "executeAll" =>
              (cmRet.err = ErrCleanupFailed
                  <=> \E i \in 1..Len(cmRet.tasksBefore) : cmRet.tasksBefore[i].fails)
        /\ cmRet.method = "executeAll" => cmRet.err \in {NoErr, ErrCleanupFailed}
        /\ cmRet.method = "forceCleanup" => cmRet.err = NoErr

\* ExecuteAll ran a task after one that failed and returned the error
C27_Witness ==
    /\ cmRet.method = "executeAll"
    /\ Len(cmRet.ran) >= 2
    /\ cmRet.ran[1].err # NoErr
    /\ cmRet.ran[2].err = NoErr
    /\ cmRet.ran[2].task.Description \in cmRet.heldBefore
    /\ cmRet.ran[2].task.Description \notin cmRet.heldAfter
    /\ cmRet.err = ErrCleanupFailed

\* C28: ExecuteAll and ForceCleanup leave the registered task list as it
\* was, and a second run right after a first one, the tasks being
\* idempotent, leaves the resources as the first run left them.
C28_RepeatedRun ==
    /\ RanTasks => cmRet.tasksAfter = cmRet.tasksBefore /\ tasks = cmRet.tasksAfter
    /\ cmRet.again => cmRet.heldAfter = cmRet.heldBefore

\* a second run right after a first one that released a resource
C28_Witness ==
    /\ cmRet.again
    /\ Len(cmRet.tasksBefore) >= 2
    /\ cmRet.heldAfter # Resources
    /\ \E i \in 1..Len(cmRet.ran) : cmRet.ran[i].err = NoErr


(* ------------------------------------------------------------------ *)
(* SignalHandler: interrupt and termination                             *)
(* ------------------------------------------------------------------ *)

\* what the handler itself does to Operations, cleanup tasks and the program
CoordinatorActs == {"CancelAll", "ForceCancel", "ForceCleanup", "Quit"}

\* the log of the handler after its last entry e
AfterLast(e) ==
    LET n == Len(shLog)
        i == CHOOSE k \in 1..n : shLog[k] = e /\ \A j \in (k + 1)..n : shLog[j] # e
    IN  SubSeq(shLog, i + 1, n)

\* the handler has sent the dialog and is back at its loop: its last call
\* of the tracker is the GetActiveOperations of the interrupt
DialogSent == shPc = "recv" /\ Returned(SignalGoroutine, "getActive")

\* the handler has gone from an interrupt to gracefulShutdown and its
\* CancelAll has not yet taken om.mu: the last result of a call of the
\* tracker it holds is that of the GetActiveOperations of the interrupt
InterruptShutdown ==
    /\ Len(shLog) >= 2
    /\ shLog[Len(shLog) - 1] = "SIGINT"
    /\ shLog[Len(shLog)] = "CancelAll"
    /\ tpc[SignalGoroutine] = "lock"
    /\ tcall[SignalGoroutine].method = "cancelAll"

\* C29: on an interrupt (SIGINT) taken before shutdown the handler goes to
\* shutdown exactly when GetActiveOperations found no live Operation, and
\* then does not go back to its loop without having requested the exit of
\* the program; when an Operation was live it sends the dialog and does
\* nothing else: nothing is cancelled or force-cancelled, no cleanup task is
\* run, the exit is not requested and shutdown is not set.
C29_InterruptChoice ==
    /\ \A i \in 1..(Len(shLog) - 1) :
          /\ shLog[i] = "SIGINT" => shLog[i + 1] \in {"Send", "CancelAll"}
          /\ shLog[i] = "Send" => shLog[i + 1] \in Signals
    /\ DialogSent =>
          /\ tret[SignalGoroutine].ops # {}
          /\ Head(AfterLast("SIGINT")) = "Send"
          /\ ~shutdown
          /\ Range(shLog) \cap CoordinatorActs = {}
          /\ cancelled = {}
          /\ forced = {}
          /\ cmRet.method = "none"
    /\ InterruptShutdown =>
          /\ tret[SignalGoroutine].ops = {}
          /\ shutdown
    /\ (shPc = "recv" /\ \E i \in 1..(Len(shLog) - 1) :
                            shLog[i] = "SIGINT" /\ shLog[i + 1] = "CancelAll")
          => shLog[Len(shLog)] = "Quit"

\* a first interrupt with a live Operation was answered by the dialog, a
\* second one with none by the shutdown that ended in the exit
C29_Witness ==
    /\ shLog = <<"SIGINT", "Send", "SIGINT", "CancelAll", "WaitOk", "Quit">>
    /\ operations = {}
    /\ cancelled = {}

\* the two courses of gracefulShutdown
GracefulCourses ==
    {<<"CancelAll", "WaitOk", "Quit">>,
     <<"CancelAll", ErrDeadline, "ForceCleanup", "Quit">>}

\* C30: a termination signal (SIGTERM) taken before shutdown makes the
\* handler set shutdown and call CancelAll, then WaitForCompletion, then
\* ForceCleanup exactly when the wait returned the error of the deadline,
\* and the handler does not go back to its loop before it has requested the
\* exit of the program; every Operation that was live at the CancelAll is
\* cancelled.
C30_TermGraceful ==
    \A i \in 1..Len(shLog) :
        shLog[i] = "SIGTERM" =>
            LET after == SubSeq(shLog, i + 1, Len(shLog)) IN
            /\ shutdown
            /\ \E course \in GracefulCourses : IsPrefix(after, course)
            /\ shPc = "recv" => after \in GracefulCourses
            /\ shPc \in {"cancelAll", "wait"} <=> after = <<"CancelAll">>
            /\ shPc = "forceCleanup" <=> after = <<"CancelAll", ErrDeadline>>
            /\ (shPc = "cancelAll" /\ tpc[SignalGoroutine] = "idle")
                  => tret[SignalGoroutine].live \subseteq cancelled
            /\ shPc = "wait" => tcall[SignalGoroutine].method = "wait"
            /\ "ForceCleanup" \in Range(after) <=> cmRet.method = "forceCleanup"
            /\ ErrDeadline \in Range(after) =>
                  tret[SignalGoroutine].err = ErrDeadline

\* the wait of a termination timed out on a live Operation, the cleanup
\* was forced and the exit requested
C30_Witness ==
    /\ shLog = <<"SIGTERM", "CancelAll", ErrDeadline, "ForceCleanup", "Quit">>
    /\ operations # {}
    /\ operations \subseteq cancelled


\* C31 (as claimed): a SIGQUIT delivered while a graceful shutdown is
\* waiting for the Operations to drain makes the handler enter the forced
\* shutdown: once handleSignals has taken it out of the channel, ForceCancel
\* has been called.
C31_QuitDuringGraceful ==
    (quitAtWait /\ "SIGQUIT" \notin Range(sigCh)) => "ForceCancel" \in Range(shLog)

\* C31 (amended): a SIGQUIT that handleSignals takes while shutdown is not
\* set makes the handler set shutdown and call ForceCancel, then
\* ForceCleanup whatever ForceCancel left, then request the exit, and the
\* handler does not go back to its loop before that; ForceCancel leaves no
\* Operation live.
C31_ForcedShutdown ==
    \A i \in 1..Len(shLog) :
        shLog[i] = "SIGQUIT" =>
            LET after == SubSeq(shLog, i + 1, Len(shLog)) IN
            /\ shutdown
            /\ IsPrefix(after, <<"ForceCancel", "ForceCleanup", "Quit">>)
            /\ Len(after) >= 1
            /\ shPc = "forceCleanup" <=> after = <<"ForceCancel">>
            /\ shPc = "quit" <=> after = <<"ForceCancel", "ForceCleanup">>
            /\ shPc = "recv" <=> after = <<"ForceCancel", "ForceCleanup", "Quit">>
            /\ (shPc = "forceCleanup" /\ tpc[SignalGoroutine] = "idle")
                  => tret[SignalGoroutine].live = {}
            /\ "ForceCleanup" \in Range(after) <=> cmRet.method = "forceCleanup"

\* a SIGQUIT with a live Operation: the Operation was force-cancelled, the
\* cleanup forced and the exit requested
C31_Witness ==
    /\ shLog = <<"SIGQUIT", "ForceCancel", "ForceCleanup", "Quit">>
    /\ forced # {}
    /\ operations = {}


\* the entries of the log with which the handler enters a shutdown
ShutdownEntries == {"CancelAll", "ForceCancel"}

\* C32: shutdown is set exactly from the first CancelAll or ForceCancel of
\* the handler on and is never reset, and a signal taken after that is
\* ignored: the handler calls CancelAll or ForceCancel at most once in all,
\* ForceCleanup at most once and Quit at most once, and after it entered the
\* shutdown it handles no signal and sends no dialog.
C32_ShutdownIdempotent ==
    /\ shutdown <=> Range(shLog) \cap ShutdownEntries # {}
    /\ Cardinality({i \in 1..Len(shLog) : shLog[i] \in ShutdownEntries}) <= 1
    /\ Occurrences(shLog, "ForceCleanup") <= 1
    /\ Occurrences(shLog, "Quit") <= 1
    /\ \A i, j \in 1..Len(shLog) :
          (i < j /\ shLog[i] \in ShutdownEntries)
              => shLog[j] \in {"WaitOk", ErrDeadline, "ForceCleanup", "Quit"}

\* a SIGQUIT that went into the channel while the graceful shutdown waited
\* has been taken out of it after the exit was requested, and nothing was done
C32_Witness ==
    /\ quitAtWait
    /\ sigCh = << >>
    /\ nsigs = 2
    /\ shPc = "recv"
    /\ shLog \in {<<"SIGTERM", "CancelAll", "WaitOk", "Quit">>,
                  <<"SIGTERM", "CancelAll", ErrDeadline, "ForceCleanup", "Quit">>}


(* ------------------------------------------------------------------ *)
(* Terminal UI: deletion                                                *)
(* ------------------------------------------------------------------ *)

\* C33: in the terminal UI DeleteEnvironment is invoked for a name only
\* after a confirmation dialog for that name was shown and the user
\* confirmed it, every dialog starts with Cancel selected, and there are
\* never more deletions than confirmations.
C33_DeleteOnlyConfirmed ==
    /\ \A i \in 1..Len(deleteCalls) :
          /\ \E j \in 1..Len(dialogs) : dialogs[j].name = deleteCalls[i]
          /\ deleteCalls[i] \in Range(confirms)
    /\ Len(deleteCalls) <= Len(confirms)
    /\ \A j \in 1..Len(dialogs) : dialogs[j].selected = 0


(* ------------------------------------------------------------------ *)
(* CreateEnvironment: the environmentInState flag                       *)
(* ------------------------------------------------------------------ *)

\* C34: the deferred compensation of CreateEnvironment never calls
\* RemoveEnvironment: when it is about to run and after it has run the
\* environmentInState flag is false, because the flag is set only when
\* AddEnvironment has succeeded, and then the call returns no error.
C34_NoRemoveInCompensation ==
    op = "create" =>
        /\ pc = "defer" => ~cleanup.environmentInState
        /\ "RemoveEnvironment" \notin Range(CallNames(compCalls))
        /\ cleanup.environmentInState
              => /\ Call("AddEnvironment", "ok") \in Range(calls)
                 /\ pc = "returned"
                 /\ retErr = NoErr
                 /\ compCalls = << >>

\* AddEnvironment failed at step 7 and the compensation has run and
\* removed what the earlier steps had created
C34_Witness ==
    /\ op = "create"
    /\ pc = "returned"
    /\ Call("AddEnvironment", "err") \in Range(calls)
    /\ Call("Remove", "ok") \in Range(compCalls)
    /\ Call("RemoveWorktree", "ok") \in Range(compCalls)


(* ------------------------------------------------------------------ *)
(* The store after a call that returned an error                        *)
(* ------------------------------------------------------------------ *)

\* a call of the store API returned
StoreReturned == pc = "returned" /\ op \in {"add", "remove", "update"}

\* C35 (as claimed): when AddEnvironment, RemoveEnvironment or
\* UpdateEnvironment returns an error (duplicate name, name not found, or
\* the state file could not be written), the in-memory State is the one
\* before the call, and the in-memory State and the persisted document are
\* the same after every call.
C35_ErrorKeepsState ==
    StoreReturned =>
        /\ retErr # NoErr => state = pre
        /\ state = disk


(* ------------------------------------------------------------------ *)
(* The store of a program that lists between its store calls            *)
(* ------------------------------------------------------------------ *)

NextListStore ==
    \/ ListEnvironments
    \/ \E e \in StoreEnvs, w \in BOOLEAN : StoreAdd(e, w)
    \/ \E n \in EnvNames, w \in BOOLEAN : StoreRemove(n, w)
    \/ \E n \in EnvNames, u \in Updaters, w \in BOOLEAN : StoreUpdate(n, u, w)

SpecListStore == InitLoaded /\ [][NextListStore]_vars

\* the records of a document other than the one named name
Others(doc, name) == { doc[i] : i \in { j \in 1..Len(doc) : doc[j].Name # name } }

\* C36 (as claimed): a successful AddEnvironment or RemoveEnvironment changes
\* the persisted document only by the added or removed record: the other
\* records of the rewritten document are, field by field and status
\* included, the other records of the document persisted before the call,
\* whatever calls came earlier, listings included.
C36_OnlyOneRecordChanges ==
    (StoreReturned /\ op \in {"add", "remove"} /\ retErr = NoErr) =>
        Others(disk, envName) = Others(preDisk, envName)


(* ------------------------------------------------------------------ *)
(* One TUI process: the list view and the create wizard                 *)
(* ------------------------------------------------------------------ *)

\* NewMainModel builds the list model and the create wizard, each with its
\* own environment.NewManager(): two Managers, each with the State its
\* LoadState read at start, over one environments.json. state is the State
\* of the Manager of the view that is shown, hidden that of the other.

\* key "n" in MainView opens the wizard; "q", or the end of a creation,
\* returns to MainView
SwitchView ==
    /\ pc \in {"idle", "returned"}
    /\ currentView' = IF currentView = "MainView" THEN "CreateView" ELSE "MainView"
    /\ state' = hidden
    /\ hidden' = state
    /\ UNCHANGED <<disk, worldVars, op, pc, opts, envName, env, cleanup, calls,
                   compCalls, warnings, cleanupErrors, retErr, pre, preDisk, nops,
                   callVars, trackerVars, signalVars, spc, scall, cmVars, uiKind,
                   cursor, showConfirm, confirmModel, selectedEnvName, inbox,
                   deleteCalls, dialogs, confirms, nkeys, persistedHere, lockVars>>

\* the wizard's createEnvironment command: CreateEnvironment on its Manager
WizardCreate(o) == currentView = "CreateView" /\ CreateStart(o)

\* the list's deleteEnvironment command: DeleteEnvironment on its Manager
ListDelete(name) == currentView = "MainView" /\ DeleteEnvironment(name)

\* the list's refreshEnvironments command: ListEnvironments on its Manager
ListRefresh == currentView = "MainView" /\ ListEnvironments

NextViews ==
    \/ SwitchView
    \/ \E o \in Options : WizardCreate(o)
    \/ CreateStepRemoteBranch
    \/ CreateStepLocalBranch
    \/ CreateStepWorktree
    \/ CreateStepContainerfile
    \/ CreateStepBuild
    \/ CreateStepVolume
    \/ CreateStepRun
    \/ CreateStepPersist
    \/ CreateDeferredCleanup
    \/ \E n \in EnvNames : ListDelete(n)
    \/ ListRefresh

SpecViews == InitLoaded /\ [][NextViews]_vars

\* C37 (as claimed): within one TUI process, a record persisted by a
\* successful create stays in the persisted document until DeleteEnvironment
\* is called for its name; a create or a delete of another environment
\* through the other view does not take it out of the document.
C37_CreatedStaysPersisted ==
    \A n \in persistedHere : HasName(disk, n)


(* ------------------------------------------------------------------ *)
(* A failed Operation while its cleanup functions run                   *)
(* ------------------------------------------------------------------ *)

\* the Operations whose FailOperation is in its loop over the cleanup functions
Cleaning == { tcall[g].id : g \in { k \in Goroutines : tpc[k] = "cleanup" } }

\* C38: a failed Operation is in the live set until FailOperation has run
\* all its cleanup functions: while the loop runs, the Operation is in the
\* map and om.mu is held, and no WaitForCompletion has returned success and
\* no GetActiveOperations an empty set at a step where a FailOperation was
\* in its loop.
C38_LiveWhileCleaning ==
    /\ \A g \in Goroutines :
          tpc[g] = "cleanup" => tcall[g].id \in operations /\ omMu = g
    /\ \A h \in Goroutines :
          \/ Returned(h, "wait") /\ tret[h].err = NoErr
          \/ Returned(h, "getActive") /\ tret[h].ops = {}
          => tret[h].cleaning = {}

\* the one cleanup function of Operation 1 has run, FailOperation has not
\* yet deleted it, and a WaitForCompletion waits at om.mu.RLock for its tick
C38_Witness ==
    /\ tpc[1] = "cleanup"
    /\ Cleaning = {1}
    /\ tcall[1].snap # << >>
    /\ tcall[1].i > Len(tcall[1].snap)
    /\ tcall[2].method = "wait"
    /\ tpc[2] = "lock"
    /\ operations = {1}


(* ------------------------------------------------------------------ *)
(* RegisterCleanup next to FailOperation and CompleteOperation          *)
(* ------------------------------------------------------------------ *)

\* RegisterCleanup of goroutine g returned nil
Registered(g) == Returned(g, "register") /\ tret[g].err = NoErr

\* FailOperation of goroutine h found the Operation id and has returned
Failed(h, id) == Returned(h, "fail") /\ tcall[h].id = id /\ tcall[h].found

\* C39 (as claimed): under any interleaving of RegisterCleanup with
\* FailOperation and CompleteOperation on the same identifier, a cleanup
\* function whose RegisterCleanup returned success has been run once a
\* FailOperation of that Operation has returned, and RegisterCleanup returns
\* success only for an Operation that is in the live set when it returns.
C39_RegisteredCleanupRuns ==
    \A g \in Callers :
       Registered(g) =>
          /\ tcall[g].id \in tret[g].live
          /\ \A h \in Callers :
                Failed(h, tcall[g].id) =>
                   tcall[g].fn \in Range(RunsOf(cleanupLog, tcall[g].id, 1))


(* ------------------------------------------------------------------ *)
(* The tracker seen at its lock operations                              *)
(* ------------------------------------------------------------------ *)

\* number of calls of the tracker in one run, seen at their lock operations
MaxLockCalls == 4

\* the methods that take om.mu.Lock, and those that take om.mu.RLock
Lockers == {"start", "complete", "fail", "forceCancel"}
RLockers == {"update", "register", "get", "getActive", "cancelAll", "wait"}

LockCalls ==
    [method : {"start", "forceCancel", "getActive", "cancelAll", "wait"}, id : {0}]
      \cup [method : {"complete", "fail", "update", "register", "get"}, id : OpIDs]

\* sync.RWMutex: Lock is granted when no goroutine holds the mutex; RLock
\* when no writer holds it and none waits for it
CanLock(l) == l.w = NoHolder /\ l.r = {}
CanRLock(l) == l.w = NoHolder /\ l.q = {}

\* g has called Lock and blocks new readers
LockPending(l, g) == [l EXCEPT !.q = @ \cup {g}]
\* Lock returns in g
Locked(l, g) == [l EXCEPT !.w = g, !.q = @ \ {g}]
\* RLock returns in g
RLocked(l, g) == [l EXCEPT !.r = @ \cup {g}]
\* RUnlock by g
RUnlocked(l, g) == [l EXCEPT !.r = @ \ {g}]

\* faulty variant: a return path that leaves the mutex locked
Unlocked_Kept(l) == l

\* Unlock, deferred or explicit, on every return path
Unlocked(l) == [l EXCEPT !.w = NoHolder]

\* what a step at the locks leaves alone
lockRest ==
    <<state, disk, worldVars, op, pc, opts, envName, env, cleanup, calls, compCalls,
      warnings, cleanupErrors, retErr, pre, preDisk, nops, callVars, opObj, omMu,
      cancelled, forced, cleanupLog, issued, tpc, tcall, tret, tcalls, signalVars,
      spc, scall, cmVars, uiVars, persistedHere>>

\* the call of g goes to position p
Goto(g, p) == lk' = [lk EXCEPT ![g].pc = p]

\* the call of g returns
Done(g) == lk' = [lk EXCEPT ![g] = NoLockCall]

\* a goroutine calls a method; a method of Lockers is at om.mu.Lock at once
LockCall(g, c) ==
    /\ lk[g].pc = "idle"
    /\ nlk < MaxLockCalls
    /\ c.method = "start" => idCounter < MaxOperations
    /\ nlk' = nlk + 1
    /\ lk' = [lk EXCEPT ![g] =
                [pc |-> IF c.method \in Lockers THEN "omLock"
                        ELSE IF c.method = "wait" THEN "select" ELSE "omRLock",
                 method |-> c.method, id |-> c.id, todo |-> {}]]
    /\ mu' = IF c.method \in Lockers
             THEN [mu EXCEPT ![0] = LockPending(@, g)] ELSE mu
    /\ UNCHANGED <<operations, idCounter, lockRest>>

\* om.mu.Lock() returns
OmLock(g) ==
    /\ lk[g].pc = "omLock"
    /\ CanLock(mu[0])
    /\ mu' = [mu EXCEPT ![0] = Locked(@, g)]
    /\ Goto(g, "omHeld")
    /\ UNCHANGED <<operations, idCounter, nlk, lockRest>>

\* under om.mu.Lock: StartOperation (75-99) and ForceCancel (197-205) do
\* their work and unlock; CompleteOperation (102-110) and FailOperation
\* (123-131) return not-found or go on to op.mu.Lock
OmLocked(g) ==
    /\ lk[g].pc = "omHeld"
    /\ UNCHANGED <<nlk, lockRest>>
    /\ CASE lk[g].method = "start" ->
              LET id == NextID(idCounter, operations) IN
              /\ operations' = operations \cup {id}
              /\ idCounter' = idCounter + 1
              /\ mu' = (id :> Free) @@ [mu EXCEPT ![0] = Unlocked(@)]
              /\ Done(g)
         [] lk[g].method = "forceCancel" ->
              /\ operations' = {}
              /\ mu' = [mu EXCEPT ![0] = Unlocked(@)]
              /\ Done(g)
              /\ UNCHANGED idCounter
         [] OTHER ->
              /\ UNCHANGED <<operations, idCounter>>
              /\ IF lk[g].id \in operations
                 THEN /\ mu' = [mu EXCEPT ![lk[g].id] = LockPending(@, g)]
                      /\ Goto(g, "opLock")
                 ELSE /\ mu' = [mu EXCEPT ![0] = Unlocked(@)]
                      /\ Done(g)

\* op.mu.Lock() returns
OpLock(g) ==
    /\ lk[g].pc = "opLock"
    /\ CanLock(mu[lk[g].id])
    /\ mu' = [mu EXCEPT ![lk[g].id] = Locked(@, g)]
    /\ Goto(g, "opHeld")
    /\ UNCHANGED <<operations, idCounter, nlk, lockRest>>

\* op.mu.Unlock(): CompleteOperation (116) goes on to its delete,
\* FailOperation (136) to its cleanup loop, UpdateProgress (165) and
\* RegisterCleanup (240) return
OpUnlock(g) ==
    /\ lk[g].pc = "opHeld"
    /\ mu' = [mu EXCEPT ![lk[g].id] = Unlocked(@)]
    /\ CASE lk[g].method = "complete" -> Goto(g, "delete")
         [] lk[g].method = "fail" -> Goto(g, "cleanup")
         [] OTHER -> Done(g)
    /\ UNCHANGED <<operations, idCounter, nlk, lockRest>>

\* FailOperation, 138-142: the cleanup functions run; they take no lock of
\* the tracker
RunCleanups(g) ==
    /\ lk[g].pc = "cleanup"
    /\ Goto(g, "delete")
    /\ UNCHANGED <<operations, idCounter, mu, nlk, lockRest>>

\* delete(om.operations, id), then the deferred om.mu.Unlock()
DeleteAndUnlock(g) ==
    /\ lk[g].pc = "delete"
    /\ operations' = operations \ {lk[g].id}
    /\ mu' = [mu EXCEPT ![0] = Unlocked(@)]
    /\ Done(g)
    /\ UNCHANGED <<idCounter, nlk, lockRest>>

\* om.mu.RLock() returns; GetActiveOperations starts its range over the map
OmRLock(g) ==
    /\ lk[g].pc = "omRLock"
    /\ CanRLock(mu[0])
    /\ mu' = [mu EXCEPT ![0] = RLocked(@, g)]
    /\ lk' = [lk EXCEPT ![g].pc = "omRHeld", ![g].todo = operations]
    /\ UNCHANGED <<operations, idCounter, nlk, lockRest>>

\* under om.mu.RLock: UpdateProgress (152-158) and RegisterCleanup (230-236)
\* unlock and go on to op.mu.Lock when the Operation exists; GetOperation
\* and CancelAll unlock and return, and so does GetActiveOperations (180-182)
\* when its range is over; the tick of WaitForCompletion unlocks and returns
\* when the map is empty
OmRLocked(g) ==
    /\ lk[g].pc = "omRHeld"
    /\ lk[g].method = "getActive" => lk[g].todo = {}
    /\ UNCHANGED <<operations, idCounter, nlk, lockRest>>
    /\ CASE lk[g].method \in {"update", "register"} /\ lk[g].id \in operations ->
              /\ mu' = [mu EXCEPT ![0] = RUnlocked(@, g),
                                  ![lk[g].id] = LockPending(@, g)]
              /\ Goto(g, "opLock")
         [] lk[g].method = "wait" /\ operations # {} ->
              /\ mu' = [mu EXCEPT ![0] = RUnlocked(@, g)]
              /\ Goto(g, "select")
         [] OTHER ->
              /\ mu' = [mu EXCEPT ![0] = RUnlocked(@, g)]
              /\ Done(g)

\* GetActiveOperations, 175-179: the next Operation of the range, op.mu.RLock
\* with om.mu.RLock held
OpRLock(g) ==
    /\ lk[g].pc = "omRHeld"
    /\ lk[g].method = "getActive"
    /\ \E id \in lk[g].todo :
         /\ CanRLock(mu[id])
         /\ mu' = [mu EXCEPT ![id] = RLocked(@, g)]
         /\ lk' = [lk EXCEPT ![g].pc = "opRHeld", ![g].id = id]
    /\ UNCHANGED <<operations, idCounter, nlk, lockRest>>

\* GetActiveOperations, 177-178: the copy, op.mu.RUnlock
OpRUnlock(g) ==
    /\ lk[g].pc = "opRHeld"
    /\ mu' = [mu EXCEPT ![lk[g].id] = RUnlocked(@, g)]
    /\ lk' = [lk EXCEPT ![g].pc = "omRHeld", ![g].todo = @ \ {lk[g].id}]
    /\ UNCHANGED <<operations, idCounter, nlk, lockRest>>

\* WaitForCompletion at its select: a tick goes to om.mu.RLock
Tick(g) ==
    /\ lk[g].pc = "select"
    /\ Goto(g, "omRLock")
    /\ UNCHANGED <<operations, idCounter, mu, nlk, lockRest>>

\* WaitForCompletion at its select: ctx.Done() is taken, ctx.Err() returned
CtxDone(g) ==
    /\ lk[g].pc = "select"
    /\ Done(g)
    /\ UNCHANGED <<operations, idCounter, mu, nlk, lockRest>>

\* a step of the call of g
LockStep(g) ==
    \/ OmLock(g) \/ OmLocked(g) \/ OpLock(g) \/ OpUnlock(g) \/ RunCleanups(g)
    \/ DeleteAndUnlock(g) \/ OmRLock(g) \/ OmRLocked(g) \/ OpRLock(g)
    \/ OpRUnlock(g) \/ Tick(g) \/ CtxDone(g)

NextLocks ==
    \/ \E g \in Callers, c \in LockCalls : LockCall(g, c)
    \/ \E g \in Callers : OmLock(g)
    \/ \E g \in Callers : OmLocked(g)
    \/ \E g \in Callers : OpLock(g)
    \/ \E g \in Callers : OpUnlock(g)
    \/ \E g \in Callers : RunCleanups(g)
    \/ \E g \in Callers : DeleteAndUnlock(g)
    \/ \E g \in Callers : OmRLock(g)
    \/ \E g \in Callers : OmRLocked(g)
    \/ \E g \in Callers : OpRLock(g)
    \/ \E g \in Callers : OpRUnlock(g)
    \/ \E g \in Callers : Tick(g)
    \/ \E g \in Callers : CtxDone(g)

\* every goroutine that can run does run; the deadline of a ctx passes, and
\* select then takes ctx.Done() at one of its rounds
SpecLocks ==
    /\ Init
    /\ [][NextLocks]_vars
    /\ \A g \in Callers : WF_vars(LockStep(g))
    /\ \A g \in Callers : SF_vars(CtxDone(g))


\* the locks goroutine g holds, for writing or for reading
HeldBy(g) == { m \in DOMAIN mu : mu[m].w = g \/ g \in mu[m].r }

\* g waits for om.mu
WaitsForOm(g) == lk[g].pc \in {"omLock", "omRLock"}

\* om.mu before op.mu: a goroutine that waits for om.mu holds no lock, and
\* one that holds an op.mu holds no second op.mu
LockOrder ==
    \A g \in Callers :
       /\ WaitsForOm(g) => HeldBy(g) = {}
       /\ Cardinality(HeldBy(g) \ {0}) <= 1

\* C40: the tracker is deadlock-free: for any concurrent callers of its
\* public methods, with cleanup functions that take no lock of the tracker,
\* om.mu is never waited for with a lock held, and every call in progress
\* gets the locks it waits for and returns.
C40_EveryCallReturns ==
    /\ []LockOrder
    /\ \A g \in Callers : (lk[g].pc # "idle") ~> (lk[g].pc = "idle")

\* FailOperation holds om.mu and waits for the op.mu that UpdateProgress
\* holds, with om.mu already released by UpdateProgress
C40_Witness ==
    /\ lk[1].method = "fail"
    /\ lk[1].pc = "opLock"
    /\ mu[0].w = 1
    /\ lk[2].method = "update"
    /\ lk[2].pc = "opHeld"
    /\ mu[1].w = 2

====
